---- MODULE Spec2Model ----
(***************************************************************************)
(* Qwirkle engine (todd-working/qwirkle, Go implementation): tiles, board, *)
(* bag, hand, rules kernel, game state, move generator and greedy solver.  *)
(*                                                                         *)
(* Go slices are 0-based; the sequences below are 1-based, so slot i of    *)
(* the code is element i+1 here.  Operations that mutate *Board in place   *)
(* return the board they leave behind next to their result.                *)
(***************************************************************************)
EXTENDS Integers, Sequences, FiniteSets, TLC

VARIABLES game, last, srv

vars == <<game, last, srv>>

-----------------------------------------------------------------------------
(* Bounds of the model.  The code has 6 shapes, 6 colors, 3 copies of each *)
(* tile and hands of 6; the model scales these down.                       *)

NumShapes == 2
NumColors == 3
NumCopies == 1
MaxHandSize == 2
NumSeeds == 3
MaxRow == 1
MaxCol == 1
MaxLeft == 1
MaxPlace == 2
MaxTurns == 2
MaxSwap == 2

(* Program constants. *)
IndexStride == 6
MaxLineLen == 6
QwirkleLen == 6
QwirkleBonus == 6
EndBonus == 6
LineBufCap == 7
RngMod == 1009
RngMul == 31
RngInc == 19

(* The nil *Tile: a value no tile equals. *)
Nil == [shape |-> -1, color |-> -1]

SeqsUpTo(S, n) == UNION {[1..k -> S] : k \in 0..n}

SeqToSet(s) == {s[i] : i \in 1..Len(s)}

-----------------------------------------------------------------------------
(* Tile *)

Shapes == 0..(NumShapes - 1)
Colors == 0..(NumColors - 1)

Tile(s, c) == [shape |-> s, color |-> c]

Tiles == {Tile(s, c) : s \in Shapes, c \in Colors}

ShapeString(s) ==
    CASE s = 0 -> "Circle"
      [] s = 1 -> "Square"
      [] s = 2 -> "Diamond"
      [] s = 3 -> "Clover"
      [] s = 4 -> "Star"
      [] s = 5 -> "Starburst"
      [] OTHER -> "Unknown"

ColorString(c) ==
    CASE c = 0 -> "Red"
      [] c = 1 -> "Orange"
      [] c = 2 -> "Yellow"
      [] c = 3 -> "Green"
      [] c = 4 -> "Blue"
      [] c = 5 -> "Purple"
      [] OTHER -> "Unknown"

TileString(t) == ColorString(t.color) \o " " \o ShapeString(t.shape)

TileIndex(t) == t.shape * IndexStride + t.color

RECURSIVE TilesOfShape(_, _)
TilesOfShape(s, c) ==
    IF c >= NumColors THEN << >>
    ELSE <<Tile(s, c)>> \o TilesOfShape(s, c + 1)

RECURSIVE TilesOfCopy(_)
TilesOfCopy(s) ==
    IF s >= NumShapes THEN << >>
    ELSE TilesOfShape(s, 0) \o TilesOfCopy(s + 1)

RECURSIVE CopiesFrom(_)
CopiesFrom(k) ==
    IF k >= NumCopies THEN << >>
    ELSE TilesOfCopy(0) \o CopiesFrom(k + 1)

AllTiles == CopiesFrom(0)

-----------------------------------------------------------------------------
(* Board: a sparse map from positions to tiles *)

Position(r, c) == [row |-> r, col |-> c]

Origin == Position(0, 0)

Neighbors(p) ==
    << Position(p.row - 1, p.col), Position(p.row + 1, p.col),
       Position(p.row, p.col - 1), Position(p.row, p.col + 1) >>

NewBoard == [p \in {} |-> Nil]

BoardGet(b, p) == IF p \in DOMAIN b THEN b[p] ELSE Nil

BoardSet(b, p, t) == [q \in (DOMAIN b) \cup {p} |-> IF q = p THEN t ELSE b[q]]

BoardRemove(b, p) == [q \in (DOMAIN b) \ {p} |-> b[q]]

BoardHas(b, p) == p \in DOMAIN b

BoardIsEmpty(b) == DOMAIN b = {}

BoardPositions(b) == DOMAIN b

HasNeighbor(b, p) == \E i \in 1..4 : BoardHas(b, Neighbors(p)[i])

BoardClone(b) == [q \in DOMAIN b |-> b[q]]

-----------------------------------------------------------------------------
(* Line extraction *)

RECURSIVE GetLineFrom(_, _, _, _, _)
GetLineFrom(b, r, c, dr, dc) ==
    IF BoardHas(b, Position(r, c))
    THEN <<b[Position(r, c)]>> \o GetLineFrom(b, r + dr, c + dc, dr, dc)
    ELSE << >>

GetLine(b, pos, dr, dc) == GetLineFrom(b, pos.row + dr, pos.col + dc, dr, dc)

Reverse(s) == [i \in 1..Len(s) |-> s[Len(s) + 1 - i]]

CenterTile(b, pos) == IF BoardHas(b, pos) THEN <<b[pos]>> ELSE << >>

GetHorizontalLine(b, pos) ==
    Reverse(GetLine(b, pos, 0, -1)) \o CenterTile(b, pos) \o GetLine(b, pos, 0, 1)

GetVerticalLine(b, pos) ==
    Reverse(GetLine(b, pos, -1, 0)) \o CenterTile(b, pos) \o GetLine(b, pos, 1, 0)

Min2(a, b) == IF a < b THEN a ELSE b

Take(s, n) == SubSeq(s, 1, Min2(Len(s), n))

(* The fixed buffer: each of the three phases stops appending at 7 tiles. *)
FastLine(before, center, after) ==
    LET l1 == Take(before, LineBufCap)
        l2 == IF Len(l1) < LineBufCap THEN l1 \o center ELSE l1
        l3 == l2 \o Take(after, LineBufCap - Len(l2))
    IN  [tiles |-> l3, count |-> Len(l3)]

GetHorizontalLineFast(b, pos) ==
    FastLine(Reverse(GetLine(b, pos, 0, -1)), CenterTile(b, pos), GetLine(b, pos, 0, 1))

GetVerticalLineFast(b, pos) ==
    FastLine(Reverse(GetLine(b, pos, -1, 0)), CenterTile(b, pos), GetLine(b, pos, 1, 0))

-----------------------------------------------------------------------------
(* Line validity *)

NoDuplicateIndex(tiles) ==
    \A i, j \in 1..Len(tiles) : i # j => TileIndex(tiles[i]) # TileIndex(tiles[j])

SameColor(tiles) == \A i \in 2..Len(tiles) : tiles[i].color = tiles[1].color

SameShape(tiles) == \A i \in 2..Len(tiles) : tiles[i].shape = tiles[1].shape

IsValidLine(tiles) ==
    IF Len(tiles) <= 1 THEN TRUE
    ELSE IF Len(tiles) > MaxLineLen THEN FALSE
    ELSE IF ~NoDuplicateIndex(tiles) THEN FALSE
    ELSE IF SameColor(tiles) THEN TRUE
    ELSE SameShape(tiles)

(* IsValidLineFast without the duplicate scan. *)
IsValidLineFastKeepsDuplicates(lt) ==
    IF lt.count <= 1 THEN TRUE
    ELSE IF lt.count > MaxLineLen THEN FALSE
    ELSE LET tiles == SubSeq(lt.tiles, 1, lt.count)
         IN  IF SameColor(tiles) THEN TRUE
             ELSE SameShape(tiles)

IsValidLineFast(lt) ==
    IF lt.count <= 1 THEN TRUE
    ELSE IF lt.count > MaxLineLen THEN FALSE
    ELSE LET tiles == SubSeq(lt.tiles, 1, lt.count)
         IN  IF ~NoDuplicateIndex(tiles) THEN FALSE
             ELSE IF SameColor(tiles) THEN TRUE
             ELSE SameShape(tiles)

-----------------------------------------------------------------------------
(* Placement validation *)

Result(ok, b) == [valid |-> ok, board |-> b]

(* ValidatePlacement without the check of the vertical line. *)
ValidatePlacementHorizontalOnly(b, pos, tile, isFirstMove) ==
    IF BoardHas(b, pos) THEN Result(FALSE, b)
    ELSE IF isFirstMove /\ BoardIsEmpty(b) THEN Result(pos.row = 0 /\ pos.col = 0, b)
    ELSE IF ~isFirstMove /\ ~HasNeighbor(b, pos) THEN Result(FALSE, b)
    ELSE LET b1 == BoardSet(b, pos, tile)
         IN  Result(IsValidLine(GetHorizontalLine(b1, pos)), BoardRemove(b1, pos))

(* Sets the tile, checks both lines, and removes it again (deferred). *)
ValidatePlacement(b, pos, tile, isFirstMove) ==
    IF BoardHas(b, pos) THEN Result(FALSE, b)
    ELSE IF isFirstMove /\ BoardIsEmpty(b) THEN Result(pos.row = 0 /\ pos.col = 0, b)
    ELSE IF ~isFirstMove /\ ~HasNeighbor(b, pos) THEN Result(FALSE, b)
    ELSE LET b1 == BoardSet(b, pos, tile)
             ok == IF ~IsValidLine(GetHorizontalLine(b1, pos)) THEN FALSE
                   ELSE IsValidLine(GetVerticalLine(b1, pos))
         IN  Result(ok, BoardRemove(b1, pos))

(* ValidateSingleTile without the Remove on the early exit. *)
ValidateSingleTileLeavesTile(b, pos, tile) ==
    IF BoardHas(b, pos) THEN Result(FALSE, b)
    ELSE IF BoardIsEmpty(b) THEN Result(pos.row = 0 /\ pos.col = 0, b)
    ELSE IF ~HasNeighbor(b, pos) THEN Result(FALSE, b)
    ELSE LET b1 == BoardSet(b, pos, tile)
         IN  IF ~IsValidLineFast(GetHorizontalLineFast(b1, pos))
             THEN Result(FALSE, b1)
             ELSE Result(IsValidLineFast(GetVerticalLineFast(b1, pos)),
                         BoardRemove(b1, pos))

(* ValidateSingleTile without the adjacency test. *)
ValidateSingleTileAnywhere(b, pos, tile) ==
    IF BoardHas(b, pos) THEN Result(FALSE, b)
    ELSE IF BoardIsEmpty(b) THEN Result(pos.row = 0 /\ pos.col = 0, b)
    ELSE LET b1 == BoardSet(b, pos, tile)
         IN  IF ~IsValidLineFast(GetHorizontalLineFast(b1, pos))
             THEN Result(FALSE, BoardRemove(b1, pos))
             ELSE Result(IsValidLineFast(GetVerticalLineFast(b1, pos)),
                         BoardRemove(b1, pos))

ValidateSingleTile(b, pos, tile) ==
    IF BoardHas(b, pos) THEN Result(FALSE, b)
    ELSE IF BoardIsEmpty(b) THEN Result(pos.row = 0 /\ pos.col = 0, b)
    ELSE IF ~HasNeighbor(b, pos) THEN Result(FALSE, b)
    ELSE LET b1 == BoardSet(b, pos, tile)
         IN  IF ~IsValidLineFast(GetHorizontalLineFast(b1, pos))
             THEN Result(FALSE, BoardRemove(b1, pos))
             ELSE Result(IsValidLineFast(GetVerticalLineFast(b1, pos)),
                         BoardRemove(b1, pos))

AllSameRow(placements) ==
    \A i \in 2..Len(placements) : placements[i].pos.row = placements[1].pos.row

AllSameCol(placements) ==
    \A i \in 2..Len(placements) : placements[i].pos.col = placements[1].pos.col

(* The loop over the placements on the cloned board: validate, then apply. *)
RECURSIVE ValidateEach(_, _, _, _, _)
ValidateEach(b, testBoard, placements, i, isFirstMove) ==
    IF i > Len(placements) THEN Result(TRUE, testBoard)
    ELSE LET p == placements[i]
             isFirst == isFirstMove /\ i = 1 /\ BoardIsEmpty(b)
             r == ValidatePlacement(testBoard, p.pos, p.tile, isFirst)
         IN  IF ~r.valid THEN Result(FALSE, r.board)
             ELSE ValidateEach(b, BoardSet(r.board, p.pos, p.tile), placements,
                               i + 1, isFirstMove)

MinOf(S) == CHOOSE x \in S : \A y \in S : x <= y

MaxOf(S) == CHOOSE x \in S : \A y \in S : x >= y

Contiguous(testBoard, placements, sameRow) ==
    IF sameRow
    THEN LET row == placements[1].pos.row
             cols == {placements[i].pos.col : i \in 1..Len(placements)}
         IN  \A c \in MinOf(cols)..MaxOf(cols) : BoardHas(testBoard, Position(row, c))
    ELSE LET col == placements[1].pos.col
             rows == {placements[i].pos.row : i \in 1..Len(placements)}
         IN  \A r \in MinOf(rows)..MaxOf(rows) : BoardHas(testBoard, Position(r, col))

(* The caller's board is only touched on the single-tile path; the        *)
(* multi-tile path works on a clone.                                       *)
ValidateMove(b, placements, isFirstMove) ==
    IF Len(placements) = 1
    THEN ValidateSingleTile(b, placements[1].pos, placements[1].tile)
    ELSE IF Len(placements) = 0 THEN Result(FALSE, b)
    ELSE IF ~AllSameRow(placements) /\ ~AllSameCol(placements) THEN Result(FALSE, b)
    ELSE LET r == ValidateEach(b, BoardClone(b), placements, 1, isFirstMove)
         IN  IF ~r.valid THEN Result(FALSE, b)
             ELSE Result(Contiguous(r.board, placements, AllSameRow(placements)), b)

-----------------------------------------------------------------------------
(* Scoring *)

LineScore(line) == Len(line) + (IF Len(line) = QwirkleLen THEN QwirkleBonus ELSE 0)

(* One direction of one placement: the line is keyed by the direction     *)
(* letter and the String() of its first tile.                              *)
ScoreLine(acc, dir, line) ==
    IF Len(line) > 1
    THEN LET key == dir \o TileString(line[1])
         IN  IF key \in acc.scoredLines THEN acc
             ELSE [score |-> acc.score + LineScore(line),
                   scoredLines |-> acc.scoredLines \cup {key}]
    ELSE acc

RECURSIVE ScoreFrom(_, _, _, _)
ScoreFrom(b, placements, i, acc) ==
    IF i > Len(placements) THEN acc
    ELSE LET p == placements[i]
             a1 == ScoreLine(acc, "h", GetHorizontalLine(b, p.pos))
             a2 == ScoreLine(a1, "v", GetVerticalLine(b, p.pos))
         IN  ScoreFrom(b, placements, i + 1, a2)

ScoreMove(b, placements) ==
    IF Len(placements) = 0 THEN 0
    ELSE LET s == ScoreFrom(b, placements, 1, [score |-> 0, scoredLines |-> {}]).score
         IN  IF s = 0 /\ Len(placements) = 1 THEN 1 ELSE s

-----------------------------------------------------------------------------
(* Bag: a shuffled sequence of tiles drawn from the front, with its seeded *)
(* generator.  math/rand is stood in for by a linear congruential          *)
(* generator: like the original it is a deterministic function of the seed *)
(* and of the number of values drawn so far.                               *)

RngSeed(seed) == seed % RngMod

RngNext(rng) == (rng * RngMul + RngInc) % RngMod

Intn(rng, n) == [val |-> RngNext(rng) % n, rng |-> RngNext(rng)]

SwapAt(s, i, j) == [s EXCEPT ![i] = s[j], ![j] = s[i]]

(* Fisher-Yates: for i = len-1 down to 1, swap tiles[i] and tiles[Intn(i+1)]. *)
RECURSIVE ShuffleFrom(_, _, _)
ShuffleFrom(tiles, rng, i) ==
    IF i <= 0 THEN [tiles |-> tiles, rng |-> rng]
    ELSE LET j == Intn(rng, i + 1)
         IN  ShuffleFrom(SwapAt(tiles, i + 1, j.val + 1), j.rng, i - 1)

Shuffle(tiles, rng) == ShuffleFrom(tiles, rng, Len(tiles) - 1)

NewBag(seed) == Shuffle(AllTiles, RngSeed(seed))

Remaining(bag) == Len(bag.tiles)

BagIsEmpty(bag) == Len(bag.tiles) = 0

Draw(bag, n) ==
    LET k == Min2(n, Len(bag.tiles))
    IN  [drawn |-> SubSeq(bag.tiles, 1, k),
         bag |-> [bag EXCEPT !.tiles = SubSeq(bag.tiles, k + 1, Len(bag.tiles))]]

Return(bag, tiles) == Shuffle(bag.tiles \o tiles, bag.rng)

-----------------------------------------------------------------------------
(* Hand: an ordered sequence of at most MaxHandSize tiles *)

NewHand == << >>

HandSize(h) == Len(h)

HandGet(h, index) == IF index < 0 \/ index >= Len(h) THEN Nil ELSE h[index + 1]

RECURSIVE HandAdd(_, _)
HandAdd(h, tiles) ==
    IF Len(tiles) = 0 \/ Len(h) >= MaxHandSize THEN h
    ELSE HandAdd(Append(h, Head(tiles)), Tail(tiles))

HandRemove(h, index) ==
    IF index < 0 \/ index >= Len(h) THEN [hand |-> h, tile |-> Nil]
    ELSE [hand |-> SubSeq(h, 1, index) \o SubSeq(h, index + 2, Len(h)),
          tile |-> h[index + 1]]

(* The exchange sort of RemoveMultiple: descending order. *)
RECURSIVE SortInner(_, _, _)
SortInner(s, i, j) ==
    IF j > Len(s) THEN s
    ELSE SortInner(IF s[j] > s[i] THEN SwapAt(s, i, j) ELSE s, i, j + 1)

RECURSIVE SortDescFrom(_, _)
SortDescFrom(s, i) ==
    IF i >= Len(s) THEN s
    ELSE SortDescFrom(SortInner(s, i, i + 1), i + 1)

SortDesc(s) == SortDescFrom(s, 1)

RECURSIVE RemoveEach(_, _, _)
RemoveEach(h, sorted, removed) ==
    IF Len(sorted) = 0 THEN [hand |-> h, removed |-> removed]
    ELSE LET r == HandRemove(h, Head(sorted))
         IN  IF r.tile = Nil THEN RemoveEach(h, Tail(sorted), removed)
             ELSE RemoveEach(r.hand, Tail(sorted), Append(removed, r.tile))

RemoveMultiple(h, indices) == RemoveEach(h, SortDesc(indices), << >>)

Refill(h, bag) ==
    LET need == MaxHandSize - Len(h)
    IN  IF need > 0
        THEN LET d == Draw(bag, need)
             IN  [hand |-> HandAdd(h, d.drawn), bag |-> d.bag]
        ELSE [hand |-> h, bag |-> bag]

HandClone(h) == [i \in 1..Len(h) |-> h[i]]

HandContains(h, tile) == \E i \in 1..Len(h) : h[i] = tile

(* Slot (0-based) of the first tile equal to tile, or -1. *)
HandIndexOf(h, tile) ==
    IF HandContains(h, tile)
    THEN MinOf({i \in 1..Len(h) : h[i] = tile}) - 1
    ELSE -1

-----------------------------------------------------------------------------
(* GameState *)

Players == 0..1

NewGame(seed) ==
    LET bag == NewBag(seed)
        h0 == Refill(NewHand, bag)
        h1 == Refill(NewHand, h0.bag)
    IN  [board |-> NewBoard,
         bag |-> h1.bag,
         hands |-> (0 :> h0.hand) @@ (1 :> h1.hand),
         scores |-> (0 :> 0) @@ (1 :> 0),
         currentPlayer |-> 0,
         gameOver |-> FALSE,
         winner |-> -1,
         moveHistory |-> << >>,
         seed |-> seed]

CurrentHand(g) == g.hands[g.currentPlayer]

OtherPlayer(g) == 1 - g.currentPlayer

(* The first player, in index order, whose hand is empty while the bag is  *)
(* empty ends the game and takes the bonus; the winner is then settled.    *)
(* checkGameOver with the hand-size test dropped. *)
CheckGameOverOnEmptyBag(g) ==
    LET out == {i \in Players : BagIsEmpty(g.bag)}
        g1 == IF out = {} THEN g
              ELSE [g EXCEPT !.gameOver = TRUE,
                             !.scores[MinOf(out)] = @ + EndBonus]
    IN  IF g1.gameOver
        THEN [g1 EXCEPT !.winner = IF g1.scores[0] > g1.scores[1] THEN 0
                                   ELSE IF g1.scores[1] > g1.scores[0] THEN 1
                                   ELSE -1]
        ELSE g1

CheckGameOver(g) ==
    LET out == {i \in Players : HandSize(g.hands[i]) = 0 /\ BagIsEmpty(g.bag)}
        g1 == IF out = {} THEN g
              ELSE [g EXCEPT !.gameOver = TRUE,
                             !.scores[MinOf(out)] = @ + EndBonus]
    IN  IF g1.gameOver
        THEN [g1 EXCEPT !.winner = IF g1.scores[0] > g1.scores[1] THEN 0
                                   ELSE IF g1.scores[1] > g1.scores[0] THEN 1
                                   ELSE -1]
        ELSE g1

RECURSIVE ApplyPlacements(_, _)
ApplyPlacements(b, placements) ==
    IF Len(placements) = 0 THEN b
    ELSE ApplyPlacements(BoardSet(b, Head(placements).pos, Head(placements).tile),
                         Tail(placements))

(* For each placement, remove the first tile of the hand equal to it, if   *)
(* there is one.                                                           *)
RECURSIVE RemovePlayed(_, _)
RemovePlayed(h, placements) ==
    IF Len(placements) = 0 THEN h
    ELSE LET i == HandIndexOf(h, Head(placements).tile)
         IN  RemovePlayed(IF i >= 0 THEN HandRemove(h, i).hand ELSE h,
                          Tail(placements))

MoveRecord(player, placements, score, wasSwap, swapCount) ==
    [player |-> player, placements |-> placements, score |-> score,
     wasSwap |-> wasSwap, swapCount |-> swapCount]

Outcome(g, r) == [game |-> g, ret |-> r]

(* PlayTiles past the game-over guard, toggling the player also when the   *)
(* play ends the game.                                                     *)
PlayTilesAlwaysToggles(g, placements) ==
    LET isFirst == BoardIsEmpty(g.board)
        v == ValidateMove(g.board, placements, isFirst)
    IN  IF ~v.valid THEN Outcome([g EXCEPT !.board = v.board], -1)
        ELSE LET b == ApplyPlacements(v.board, placements)
                 score == ScoreMove(b, placements)
                 cp == g.currentPlayer
                 f == Refill(RemovePlayed(g.hands[cp], placements), g.bag)
                 g1 == [g EXCEPT !.board = b,
                                 !.scores[cp] = @ + score,
                                 !.hands[cp] = f.hand,
                                 !.bag = f.bag,
                                 !.moveHistory =
                                     Append(@, MoveRecord(cp, placements, score, FALSE, 0))]
                 g2 == CheckGameOver(g1)
             IN  Outcome([g2 EXCEPT !.currentPlayer = OtherPlayer(g2)], score)

(* PlayTiles past the game-over guard. *)
PlayTilesActive(g, placements) ==
    LET isFirst == BoardIsEmpty(g.board)
        v == ValidateMove(g.board, placements, isFirst)
    IN  IF ~v.valid THEN Outcome([g EXCEPT !.board = v.board], -1)
        ELSE LET b == ApplyPlacements(v.board, placements)
                 score == ScoreMove(b, placements)
                 cp == g.currentPlayer
                 f == Refill(RemovePlayed(g.hands[cp], placements), g.bag)
                 g1 == [g EXCEPT !.board = b,
                                 !.scores[cp] = @ + score,
                                 !.hands[cp] = f.hand,
                                 !.bag = f.bag,
                                 !.moveHistory =
                                     Append(@, MoveRecord(cp, placements, score, FALSE, 0))]
                 g2 == CheckGameOver(g1)
             IN  Outcome(IF ~g2.gameOver
                         THEN [g2 EXCEPT !.currentPlayer = OtherPlayer(g2)]
                         ELSE g2,
                         score)

(* PlayTiles without the game-over guard. *)
PlayTilesUnguarded(g, placements) == PlayTilesActive(g, placements)

PlayTiles(g, placements) ==
    IF g.gameOver THEN Outcome(g, -1)
    ELSE PlayTilesActive(g, placements)

SwapTiles(g, indices) ==
    IF g.gameOver THEN Outcome(g, FALSE)
    ELSE IF Len(indices) = 0 THEN Outcome(g, FALSE)
    ELSE IF Remaining(g.bag) < Len(indices) THEN Outcome(g, FALSE)
    ELSE LET cp == g.currentPlayer
             rm == RemoveMultiple(g.hands[cp], indices)
         IN  IF Len(rm.removed) # Len(indices)
             THEN Outcome([g EXCEPT !.hands[cp] = rm.hand], FALSE)
             ELSE LET f == Refill(rm.hand, g.bag)
                  IN  Outcome([g EXCEPT !.hands[cp] = f.hand,
                                        !.bag = Return(f.bag, rm.removed),
                                        !.moveHistory =
                                            Append(@, MoveRecord(cp, << >>, 0, TRUE, Len(indices))),
                                        !.currentPlayer = OtherPlayer(g)],
                              TRUE)

-----------------------------------------------------------------------------
(* Move generator *)

KeyBase == 36
QwirkleScore == 12

Placement(pos, tile) == [pos |-> pos, tile |-> tile]

Move(placements, score) == [placements |-> placements, score |-> score]

canFormValidLine(tiles) ==
    IF Len(tiles) <= 1 THEN TRUE
    ELSE IF Len(tiles) > MaxLineLen THEN FALSE
    ELSE IF ~NoDuplicateIndex(tiles) THEN FALSE
    ELSE IF SameColor(tiles) THEN TRUE
    ELSE SameShape(tiles)

(* Position order used to list a set of positions: by row, then column. *)
PosLess(p, q) == p.row < q.row \/ (p.row = q.row /\ p.col < q.col)

RECURSIVE PosSeq(_)
PosSeq(S) ==
    IF S = {} THEN << >>
    ELSE LET m == CHOOSE p \in S : \A q \in S \ {p} : PosLess(p, q)
         IN  <<m>> \o PosSeq(S \ {m})

(* The candidates are collected in a map and listed in its iteration      *)
(* order, which the runtime does not fix: rev selects one of two orders.   *)
getCandidatePositions(b, isFirst, rev) ==
    IF isFirst /\ BoardIsEmpty(b) THEN <<Origin>>
    ELSE LET cands == {q \in UNION {SeqToSet(Neighbors(p)) : p \in BoardPositions(b)} :
                          ~BoardHas(b, q)}
         IN  IF rev THEN Reverse(PosSeq(cands)) ELSE PosSeq(cands)

(* validateMultiTilePlacement without the line checks. *)
validateMultiTilePlacementAnchorOnly(b, placements, isFirst) ==
    IF Len(placements) = 0 THEN FALSE
    ELSE LET posns == {placements[i].pos : i \in 1..Len(placements)}
         IN  IF isFirst THEN Origin \in posns
             ELSE \E i \in 1..Len(placements) :
                     \E k \in 1..4 :
                        LET nb == Neighbors(placements[i].pos)[k]
                        IN  BoardHas(b, nb) /\ nb \notin posns

validateMultiTilePlacement(b, placements, isFirst) ==
    IF Len(placements) = 0 THEN FALSE
    ELSE LET posns == {placements[i].pos : i \in 1..Len(placements)}
             anchored ==
                 IF isFirst THEN Origin \in posns
                 ELSE \E i \in 1..Len(placements) :
                         \E k \in 1..4 :
                            LET nb == Neighbors(placements[i].pos)[k]
                            IN  BoardHas(b, nb) /\ nb \notin posns
         IN  IF ~anchored THEN FALSE
             ELSE \A i \in 1..Len(placements) :
                     /\ IsValidLineFast(GetHorizontalLineFast(b, placements[i].pos))
                     /\ IsValidLineFast(GetVerticalLineFast(b, placements[i].pos))

PermKeyOf(tiles, indices) ==
    LET RECURSIVE K(_, _)
        K(i, key) == IF i > Len(indices) THEN key
                     ELSE K(i + 1, key * KeyBase + TileIndex(tiles[indices[i]]))
    IN  K(1, 0)

(* generate(depth): swap each later index into place, recurse, swap back. *)
RECURSIVE PermGenerate(_, _)
RECURSIVE PermLoop(_, _, _)
PermGenerate(indices, depth) ==
    IF depth > Len(indices) THEN <<indices>>
    ELSE PermLoop(indices, depth, depth)

PermLoop(indices, depth, i) ==
    IF i > Len(indices) THEN << >>
    ELSE PermGenerate(SwapAt(indices, depth, i), depth + 1)
         \o PermLoop(indices, depth, i + 1)

RECURSIVE KeepUnseen(_, _, _, _)
KeepUnseen(tiles, perms, seen, result) ==
    IF Len(perms) = 0 THEN result
    ELSE LET ix == Head(perms)
             key == PermKeyOf(tiles, ix)
         IN  IF key \in seen THEN KeepUnseen(tiles, Tail(perms), seen, result)
             ELSE KeepUnseen(tiles, Tail(perms), seen \cup {key},
                             Append(result, [i \in 1..Len(ix) |-> tiles[ix[i]]]))

permuteUnique(tiles) ==
    IF Len(tiles) <= 1 THEN <<tiles>>
    ELSE KeepUnseen(tiles, PermGenerate([i \in 1..Len(tiles) |-> i], 1), {}, << >>)

RECURSIVE RemovePlacements(_, _)
RemovePlacements(b, placements) ==
    IF Len(placements) = 0 THEN b
    ELSE RemovePlacements(BoardRemove(b, Head(placements).pos), Tail(placements))

LinePlacements(perm, start, horizontal) ==
    [i \in 1..Len(perm) |->
        Placement(IF horizontal THEN Position(start.row, start.col + (i - 1))
                  ELSE Position(start.row + (i - 1), start.col),
                  perm[i])]

(* One permutation at one start: skipped when a cell of the run is        *)
(* occupied; otherwise place all, validate, score, remove all.             *)
TryLineAt(b, perm, start, isFirst, horizontal) ==
    LET placements == LinePlacements(perm, start, horizontal)
    IN  IF \E i \in 1..Len(placements) : BoardHas(b, placements[i].pos) THEN << >>
        ELSE LET b1 == ApplyPlacements(b, placements)
             IN  IF validateMultiTilePlacement(b1, placements, isFirst)
                 THEN <<Move(placements, ScoreMove(b1, placements))>>
                 ELSE << >>

RECURSIVE ConcatMap2(_, _, _, _, _, _, _)
ConcatMap2(b, perms, candidates, isFirst, horizontal, pi, ci) ==
    IF pi > Len(perms) THEN << >>
    ELSE IF ci > Len(candidates)
         THEN ConcatMap2(b, perms, candidates, isFirst, horizontal, pi + 1, 1)
         ELSE TryLineAt(b, perms[pi], candidates[ci], isFirst, horizontal)
              \o ConcatMap2(b, perms, candidates, isFirst, horizontal, pi, ci + 1)

tryLinePlacementsOptimized(b, tiles, candidates, isFirst, horizontal) ==
    ConcatMap2(b, permuteUnique(tiles), candidates, isFirst, horizontal, 1, 1)

RECURSIVE SingleTileMoves(_, _, _, _)
SingleTileMoves(b, tile, candidates, ci) ==
    IF ci > Len(candidates) THEN << >>
    ELSE LET pos == candidates[ci]
             here == IF ValidateSingleTile(b, pos, tile).valid
                     THEN <<Move(<<Placement(pos, tile)>>,
                                 ScoreMove(BoardSet(b, pos, tile), <<Placement(pos, tile)>>))>>
                     ELSE << >>
         IN  here \o SingleTileMoves(b, tile, candidates, ci + 1)

generateMovesForTilesOptimized(b, tiles, candidates, isFirst) ==
    IF Len(tiles) = 1 THEN SingleTileMoves(b, tiles[1], candidates, 1)
    ELSE tryLinePlacementsOptimized(b, tiles, candidates, isFirst, TRUE)
         \o tryLinePlacementsOptimized(b, tiles, candidates, isFirst, FALSE)

RECURSIVE Pow2(_)
Pow2(n) == IF n = 0 THEN 1 ELSE 2 * Pow2(n - 1)

MaskBit(mask, i) == (mask \div Pow2(i)) % 2 = 1

BitCount(mask, n) == Cardinality({i \in 0..(n - 1) : MaskBit(mask, i)})

RECURSIVE MaskSubset(_, _, _)
MaskSubset(tiles, mask, i) ==
    IF i >= Len(tiles) THEN << >>
    ELSE (IF MaskBit(mask, i) THEN <<tiles[i + 1]>> ELSE << >>)
         \o MaskSubset(tiles, mask, i + 1)

(* All masks of one size, in increasing mask order. *)
RECURSIVE MovesOfSize(_, _, _, _, _, _)
MovesOfSize(b, tiles, candidates, isFirst, size, mask) ==
    IF mask >= Pow2(Len(tiles)) THEN << >>
    ELSE LET subset == MaskSubset(tiles, mask, 0)
             here == IF BitCount(mask, Len(tiles)) # size THEN << >>
                     ELSE IF Len(subset) > 1 /\ ~canFormValidLine(subset) THEN << >>
                     ELSE generateMovesForTilesOptimized(b, subset, candidates, isFirst)
         IN  here \o MovesOfSize(b, tiles, candidates, isFirst, size, mask + 1)

BestScore(moves, best) ==
    LET S == {moves[i].score : i \in 1..Len(moves)} \cup {best}
    IN  MaxOf(S)

(* Sizes from the whole hand down to one tile; the search stops after the *)
(* first size at which the best score so far reaches a Qwirkle.            *)
RECURSIVE MovesFromSize(_, _, _, _, _, _)
MovesFromSize(b, tiles, candidates, isFirst, size, bestScore) ==
    IF size < 1 THEN << >>
    ELSE LET here == MovesOfSize(b, tiles, candidates, isFirst, size, 1)
             best == BestScore(here, bestScore)
         IN  IF best >= QwirkleScore THEN here
             ELSE here \o MovesFromSize(b, tiles, candidates, isFirst, size - 1, best)

(* Insertion of m before the first move of strictly lower score. *)
RECURSIVE InsertByScore(_, _)
InsertByScore(sorted, m) ==
    IF Len(sorted) = 0 THEN <<m>>
    ELSE IF Head(sorted).score < m.score THEN <<m>> \o sorted
    ELSE <<Head(sorted)>> \o InsertByScore(Tail(sorted), m)

RECURSIVE SortByScore(_, _)
SortByScore(moves, sorted) ==
    IF Len(moves) = 0 THEN sorted
    ELSE SortByScore(Tail(moves), InsertByScore(sorted, Head(moves)))

GenerateAllMoves(g, rev) ==
    LET b == g.board
        isFirst == BoardIsEmpty(b)
        candidates == getCandidatePositions(b, isFirst, rev)
        tiles == CurrentHand(g)
    IN  SortByScore(MovesFromSize(b, tiles, candidates, isFirst, Len(tiles), 0), << >>)

NoMove == Move(<< >>, -1)

(* GreedySolver.SelectMove: the first move of the list, nil when it is empty. *)
SelectMove(g, moves) == IF Len(moves) = 0 THEN NoMove ELSE moves[1]

GetMove(g, rev) == SelectMove(g, GenerateAllMoves(g, rev))

-----------------------------------------------------------------------------
(* The board the validators and the generators leave behind: they work on  *)
(* the caller's board with Set and Remove.                                  *)

(* tryLinePlacementsOptimized at one permutation and one start: nothing is *)
(* set when a cell of the run is occupied; otherwise all tiles are set     *)
(* and, after validation and scoring, all are removed.                     *)
BoardAfterTryLineKeepsRejected(b, perm, start, isFirst, horizontal) ==
    IF \E i \in 1..Len(perm) : BoardHas(b, LinePlacements(perm, start, horizontal)[i].pos)
    THEN b
    ELSE CHOOSE after \in
             {IF validateMultiTilePlacement(b1, LinePlacements(perm, start, horizontal), isFirst)
              THEN RemovePlacements(b1, LinePlacements(perm, start, horizontal))
              ELSE b1 :
                 b1 \in {ApplyPlacements(b, LinePlacements(perm, start, horizontal))}} : TRUE

BoardAfterTryLine(b, perm, start, isFirst, horizontal) ==
    IF \E i \in 1..Len(perm) : BoardHas(b, LinePlacements(perm, start, horizontal)[i].pos)
    THEN b
    ELSE RemovePlacements(ApplyPlacements(b, LinePlacements(perm, start, horizontal)),
                          LinePlacements(perm, start, horizontal))

RECURSIVE BoardAfterLines(_, _, _, _, _, _, _)
BoardAfterLines(b, perms, candidates, isFirst, horizontal, pi, ci) ==
    IF pi > Len(perms) THEN b
    ELSE IF ci > Len(candidates)
         THEN BoardAfterLines(b, perms, candidates, isFirst, horizontal, pi + 1, 1)
         ELSE CHOOSE after \in
                  {BoardAfterLines(b1, perms, candidates, isFirst, horizontal, pi, ci + 1) :
                      b1 \in {BoardAfterTryLine(b, perms[pi], candidates[ci], isFirst,
                                                horizontal)}} : TRUE

(* The single-tile branch at one candidate: ValidateSingleTile, and when   *)
(* it accepts, Set, ScoreMove, Remove.                                     *)
BoardAfterSingle(v, pos, tile) ==
    IF v.valid THEN BoardRemove(BoardSet(v.board, pos, tile), pos) ELSE v.board

RECURSIVE BoardAfterSingles(_, _, _, _)
BoardAfterSingles(b, tile, candidates, ci) ==
    IF ci > Len(candidates) THEN b
    ELSE CHOOSE after \in
             {BoardAfterSingles(BoardAfterSingle(v, candidates[ci], tile), tile, candidates,
                                ci + 1) :
                 v \in {ValidateSingleTile(b, candidates[ci], tile)}} : TRUE

BoardAfterSubset(b, tiles, candidates, isFirst) ==
    IF Len(tiles) = 1 THEN BoardAfterSingles(b, tiles[1], candidates, 1)
    ELSE CHOOSE after \in
             {BoardAfterLines(b1, permuteUnique(tiles), candidates, isFirst, FALSE, 1, 1) :
                 b1 \in {BoardAfterLines(b, permuteUnique(tiles), candidates, isFirst,
                                         TRUE, 1, 1)}} : TRUE

RECURSIVE BoardAfterMasks(_, _, _, _, _, _)
BoardAfterMasks(b, tiles, candidates, isFirst, size, mask) ==
    IF mask >= Pow2(Len(tiles)) THEN b
    ELSE IF BitCount(mask, Len(tiles)) # size
         THEN BoardAfterMasks(b, tiles, candidates, isFirst, size, mask + 1)
    ELSE IF Len(MaskSubset(tiles, mask, 0)) > 1 /\ ~canFormValidLine(MaskSubset(tiles, mask, 0))
         THEN BoardAfterMasks(b, tiles, candidates, isFirst, size, mask + 1)
    ELSE CHOOSE after \in
             {BoardAfterMasks(b1, tiles, candidates, isFirst, size, mask + 1) :
                 b1 \in {BoardAfterSubset(b, MaskSubset(tiles, mask, 0), candidates,
                                          isFirst)}} : TRUE

RECURSIVE BoardAfterSizes(_, _, _, _, _, _)
BoardAfterSizes(b, tiles, candidates, isFirst, size, bestScore) ==
    IF size < 1 THEN b
    ELSE CHOOSE after \in
             {IF best >= QwirkleScore THEN b1
              ELSE BoardAfterSizes(b1, tiles, candidates, isFirst, size - 1, best) :
                 best \in {BestScore(MovesOfSize(b, tiles, candidates, isFirst, size, 1),
                                     bestScore)},
                 b1 \in {BoardAfterMasks(b, tiles, candidates, isFirst, size, 1)}} : TRUE

(* The board of the game when GenerateAllMoves returns. *)
BoardAfterGenerateAllMoves(g, rev) ==
    BoardAfterSizes(g.board, CurrentHand(g),
                    getCandidatePositions(g.board, BoardIsEmpty(g.board), rev),
                    BoardIsEmpty(g.board), Len(CurrentHand(g)), 0)

(* GenerateFastMove: the best single-tile placement, the first one found   *)
(* among equals, and the board the search leaves.                          *)
FastStep(acc, v, pos, tile) ==
    IF ~v.valid THEN [move |-> acc.move, board |-> v.board]
    ELSE CHOOSE o \in
             {[move |-> IF score > acc.move.score
                        THEN Move(<<Placement(pos, tile)>>, score) ELSE acc.move,
               board |-> BoardRemove(BoardSet(v.board, pos, tile), pos)] :
                 score \in {ScoreMove(BoardSet(v.board, pos, tile), <<Placement(pos, tile)>>)}} :
             TRUE

RECURSIVE FastSearch(_, _, _, _, _)
FastSearch(acc, tiles, candidates, ti, ci) ==
    IF ti > Len(tiles) THEN acc
    ELSE IF ci > Len(candidates) THEN FastSearch(acc, tiles, candidates, ti + 1, 1)
    ELSE CHOOSE o \in
             {FastSearch(next, tiles, candidates, ti, ci + 1) :
                 next \in {FastStep(acc, v, candidates[ci], tiles[ti]) :
                              v \in {ValidateSingleTile(acc.board, candidates[ci], tiles[ti])}}} :
             TRUE

GenerateFastMove(g, rev) ==
    FastSearch([move |-> NoMove, board |-> g.board], CurrentHand(g),
               getCandidatePositions(g.board, BoardIsEmpty(g.board), rev), 1, 1)

-----------------------------------------------------------------------------
(* The engine driven through its two operations *)

Rows == 0..MaxRow
Cols == (0 - MaxLeft)..MaxCol

GridPositions == {Position(r, c) : r \in Rows, c \in Cols}

(* The tiles a caller offers: those of the current hand, and the tile of   *)
(* lowest index the hand does not hold.                                    *)
ForeignTile(h) ==
    LET out == Tiles \ SeqToSet(h)
    IN  IF out = {} THEN {}
        ELSE {CHOOSE t \in out : \A u \in out : TileIndex(t) <= TileIndex(u)}

OfferedTiles(g) == SeqToSet(CurrentHand(g)) \cup ForeignTile(CurrentHand(g))

PlacementLists(g) ==
    SeqsUpTo({Placement(p, t) : p \in GridPositions, t \in OfferedTiles(g)}, MaxPlace)

(* Slot indices a caller may pass, one below and one above the valid range included. *)
IndexLists == SeqsUpTo(-1..MaxHandSize, MaxSwap)

Seeds == 1..NumSeeds

NoOp == [op |-> "new", ret |-> 0]

(* The requests in flight at the server: none where the engine is driven  *)
(* directly.                                                               *)
NumRequests == 2

Requests == 1..NumRequests

NoRequest == [kind |-> "none", pc |-> "idle", arg |-> << >>, after |-> {},
              success |-> FALSE, score |-> 0, reply |-> << >>]

(* The worker pool of the win-probability estimator, before it is started. *)
NumWorkers == 2

Workers == 1..NumWorkers

NoWorker == [pc |-> "idle", simIdx |-> -1, result |-> -1]

NoPool == [pc |-> "idle", n |-> 0, sent |-> 0, collected |-> 0,
           jobs |-> << >>, closed |-> FALSE, results |-> << >>,
           wins |-> (0 :> 0) @@ (1 :> 0) @@ (2 :> 0),
           workers |-> [w \in Workers |-> NoWorker],
           ran |-> << >>, posted |-> << >>, turns |-> 0]

NoServer == [mu |-> 0, reqs |-> [r \in Requests |-> NoRequest], pool |-> NoPool]

Init ==
    /\ \E seed \in Seeds : game = NewGame(seed)
    /\ last = NoOp
    /\ srv = NoServer

CanAct == game.gameOver \/ Len(game.moveHistory) < MaxTurns

(* Whether the hand holds the placed tiles, counting multiplicity. *)
InHand(h, placements) ==
    \A t \in Tiles :
        Cardinality({i \in 1..Len(placements) : placements[i].tile = t})
            <= Cardinality({i \in 1..Len(h) : h[i] = t})

TargetsOccupied(b, placements) ==
    \E i \in 1..Len(placements) : BoardHas(b, placements[i].pos)

PlayStep(g, placements) ==
    LET r == PlayTiles(g, placements)
    IN  [game |-> r.game,
         last |-> [op |-> "play", ret |-> r.ret, n |-> Len(placements),
                   inHand |-> InHand(CurrentHand(g), placements),
                   occupied |-> TargetsOccupied(g.board, placements)]]

DoPlayTiles ==
    /\ CanAct
    /\ \E o \in {PlayStep(game, placements) : placements \in PlacementLists(game)} :
          /\ game' = o.game
          /\ last' = o.last
    /\ UNCHANGED srv

SwapStep(g, indices) ==
    LET r == SwapTiles(g, indices)
    IN  [game |-> r.game, last |-> [op |-> "swap", ret |-> r.ret, n |-> Len(indices)]]

DoSwapTiles ==
    /\ CanAct
    /\ \E o \in {SwapStep(game, indices) : indices \in IndexLists} :
          /\ game' = o.game
          /\ last' = o.last
    /\ UNCHANGED srv

(* The hint request: GetMove with the greedy solver on the live game. *)
DoHint ==
    /\ \E rev \in BOOLEAN :
          LET moves == GenerateAllMoves(game, rev)
          IN  last' = [op |-> "hint", ret |-> SelectMove(game, moves).score,
                       moves |-> moves, move |-> SelectMove(game, moves)]
    /\ UNCHANGED <<game, srv>>

Next == DoPlayTiles \/ DoSwapTiles \/ DoHint

Spec == Init /\ [][Next]_vars

-----------------------------------------------------------------------------
(* The validators and the generators called on the live game between its   *)
(* plays                                                                    *)

ProbeStep(op, g, board, ret, n) ==
    [game |-> [g EXCEPT !.board = board], last |-> [op |-> op, ret |-> ret, n |-> n]]

DoValidateSingleTile ==
    /\ \E o \in {ProbeStep("validate1", game, v.board, v.valid, 1) :
                    v \in {ValidateSingleTile(game.board, pos, t) :
                              pos \in GridPositions, t \in OfferedTiles(game)}} :
          /\ game' = o.game
          /\ last' = o.last
    /\ UNCHANGED srv

DoValidateMove ==
    /\ \E o \in {ProbeStep("validate", game, v.board, v.valid, 2) :
                    v \in {ValidateMove(game.board, placements, BoardIsEmpty(game.board)) :
                              placements \in PlacementLists(game)}} :
          /\ game' = o.game
          /\ last' = o.last
    /\ UNCHANGED srv

DoGenerateAllMoves ==
    /\ \E o \in {ProbeStep("generate", game, BoardAfterGenerateAllMoves(game, rev),
                            Len(GenerateAllMoves(game, rev)), Len(CurrentHand(game))) :
                    rev \in BOOLEAN} :
          /\ game' = o.game
          /\ last' = o.last
    /\ UNCHANGED srv

DoGenerateFastMove ==
    /\ \E o \in {ProbeStep("fast", game, f.board, f.move.score, Len(CurrentHand(game))) :
                    f \in {GenerateFastMove(game, rev) : rev \in BOOLEAN}} :
          /\ game' = o.game
          /\ last' = o.last
    /\ UNCHANGED srv

ProbeNext ==
    \/ DoPlayTiles
    \/ DoValidateSingleTile
    \/ DoValidateMove
    \/ DoGenerateAllMoves
    \/ DoGenerateFastMove

SpecProbe == Init /\ [][ProbeNext]_vars

-----------------------------------------------------------------------------
(* The rules kernel driven through PlayTiles on a taller grid, with tiles  *)
(* of the first shapes offered whatever the hand holds.                    *)

RulesMaxRow == 2
RulesMaxCol == 1
RulesShapes == 1
RulesMaxTurns == 3

RulesGrid == {Position(r, c) : r \in 0..RulesMaxRow, c \in 0..RulesMaxCol}

RulesTiles == {t \in Tiles : t.shape < RulesShapes}

RulesLists ==
    SeqsUpTo({Placement(p, t) : p \in RulesGrid, t \in RulesTiles}, MaxPlace)

DoPlaceTiles ==
    /\ Len(game.moveHistory) < RulesMaxTurns
    /\ \E o \in {PlayStep(game, placements) : placements \in RulesLists} :
          /\ game' = o.game
          /\ last' = o.last
    /\ UNCHANGED srv

RulesNext == DoPlaceTiles

SpecRules == Init /\ [][RulesNext]_vars

-----------------------------------------------------------------------------
(* The two line checks on tile sequences given directly *)

MaxLineInput == 7

(* One shape in every colour and one tile of another shape. *)
LineInputTiles == {t \in Tiles : t.shape = 0 \/ t.color = 0}

(* The sequence as the caller of IsValidLineFast holds it in a LineTiles. *)
AsLineTiles(tiles) == [tiles |-> tiles, count |-> Len(tiles)]

LineCheck(tiles) ==
    [op |-> "line", tiles |-> tiles,
     slow |-> IsValidLine(tiles),
     fast |-> IsValidLineFast(AsLineTiles(tiles))]

LineInit ==
    /\ game = NewGame(1)
    /\ last = LineCheck(<< >>)
    /\ srv = NoServer

(* Both checks are called on the sequence one tile longer. *)
DoCheckLine ==
    /\ Len(last.tiles) < MaxLineInput
    /\ \E t \in LineInputTiles : last' = LineCheck(Append(last.tiles, t))
    /\ UNCHANGED <<game, srv>>

LineNext == DoCheckLine

SpecLines == LineInit /\ [][LineNext]_vars

-----------------------------------------------------------------------------
(* The two line extractions on boards that hold one long row or column *)

StripLen == 9

StripCells(vertical) ==
    {IF vertical THEN Position(k, 0) ELSE Position(0, k) : k \in 0..(StripLen - 1)}

(* The tile a cell of the strip receives: neighbours differ. *)
StripTile(pos) ==
    Tile(((pos.row + pos.col) \div NumColors) % NumShapes, (pos.row + pos.col) % NumColors)

Extraction(op, vertical, b, pos) ==
    [op |-> op, vertical |-> vertical, pos |-> pos,
     hLine |-> GetHorizontalLine(b, pos), hBuf |-> GetHorizontalLineFast(b, pos),
     vLine |-> GetVerticalLine(b, pos), vBuf |-> GetVerticalLineFast(b, pos)]

StripInit ==
    /\ game = NewGame(1)
    /\ \E vertical \in BOOLEAN : last = Extraction("strip", vertical, NewBoard, Origin)
    /\ srv = NoServer

(* board.Set on an empty cell of the strip. *)
DoSetStripTile ==
    /\ \E pos \in StripCells(last.vertical) :
          /\ ~BoardHas(game.board, pos)
          /\ game' = [game EXCEPT !.board = BoardSet(game.board, pos, StripTile(pos))]
          /\ last' = Extraction("set", last.vertical, NewBoard, Origin)
    /\ UNCHANGED srv

(* Both extractions of both directions through an occupied cell. *)
DoExtractLines ==
    /\ \E pos \in BoardPositions(game.board) :
          last' = Extraction("extract", last.vertical, game.board, pos)
    /\ UNCHANGED <<game, srv>>

StripNext == DoSetStripTile \/ DoExtractLines

SpecStrip == StripInit /\ [][StripNext]_vars

-----------------------------------------------------------------------------
(* The batch simulator: runGame's loop, greedy against greedy, on a bag    *)
(* that holds each tile more than once.                                    *)

BatchCopies == 2
BatchSeeds == 9
BatchMaxTurns == 12

RECURSIVE BatchTilesFrom(_)
BatchTilesFrom(k) ==
    IF k >= BatchCopies THEN << >>
    ELSE TilesOfCopy(0) \o BatchTilesFrom(k + 1)

BatchNewGame(seed) ==
    LET bag == Shuffle(BatchTilesFrom(0), RngSeed(seed))
        h0 == Refill(NewHand, bag)
        h1 == Refill(NewHand, h0.bag)
    IN  [board |-> NewBoard,
         bag |-> h1.bag,
         hands |-> (0 :> h0.hand) @@ (1 :> h1.hand),
         scores |-> (0 :> 0) @@ (1 :> 0),
         currentPlayer |-> 0,
         gameOver |-> FALSE,
         winner |-> -1,
         moveHistory |-> << >>,
         seed |-> seed]

BatchInit ==
    /\ \E seed \in 1..BatchSeeds : game = BatchNewGame(seed)
    /\ last = NoOp
    /\ srv = NoServer

(* One pass of the loop: play the solver's move, or swap slot 0. *)
RunGameTurn(g, rev) ==
    LET move == GetMove(g, rev)
    IN  IF move # NoMove THEN PlayStep(g, move.placements)
        ELSE SwapStep(g, <<0>>)

DoRunGameTurn ==
    /\ ~game.gameOver
    /\ Len(game.moveHistory) < BatchMaxTurns
    /\ \E o \in {RunGameTurn(game, rev) : rev \in BOOLEAN} :
          /\ game' = o.game
          /\ last' = o.last
    /\ UNCHANGED srv

BatchNext == DoRunGameTurn

SpecBatch == BatchInit /\ [][BatchNext]_vars

-----------------------------------------------------------------------------
(* The server's play and swap requests on a session in human-vs-AI mode *)

AIPlayer == 1

VsMaxTurns == 3

(* makeAIMove with the default (greedy) strategy; the result of the play   *)
(* or of the fallback swap is dropped.                                     *)
makeAIMove(g, rev) ==
    CHOOSE g2 \in {IF move # NoMove THEN PlayTiles(g, move.placements).game
                                    ELSE SwapTiles(g, <<0>>).game :
                      move \in {GetMove(g, rev)}} : TRUE

(* The AI turn the play and swap handlers append to a successful request. *)
AITurnAfter(g, rev) ==
    IF ~g.gameOver /\ g.currentPlayer = AIPlayer THEN makeAIMove(g, rev) ELSE g

(* The fields of GameStateResponse that depend on the game. *)
buildStateResponse(g) ==
    [board |-> {[pos |-> p, tile |-> BoardGet(g.board, p)] : p \in BoardPositions(g.board)},
     hand |-> CurrentHand(g),
     currentPlayer |-> g.currentPlayer,
     scores |-> g.scores,
     bagRemaining |-> Remaining(g.bag),
     gameOver |-> g.gameOver,
     winner |-> IF g.gameOver THEN <<g.winner>> ELSE << >>,
     lastMovePositions |->
         IF Len(g.moveHistory) = 0 THEN << >>
         ELSE LET pl == g.moveHistory[Len(g.moveHistory)].placements
              IN  [i \in 1..Len(pl) |-> pl[i].pos]]

NoState == [gameOver |-> FALSE, currentPlayer |-> -1]

(* A play request names its tiles by 1-based hand slot. *)
PlayRequests ==
    SeqsUpTo({[pos |-> p, tileIndex |-> i] : p \in GridPositions, i \in 1..(MaxHandSize + 1)},
             MaxPlace)

SlotsValid(h, req) == \A i \in 1..Len(req) : HandGet(h, req[i].tileIndex - 1) # Nil

RequestPlacements(h, req) ==
    [i \in 1..Len(req) |-> Placement(req[i].pos, HandGet(h, req[i].tileIndex - 1))]

(* What a handler leaves behind when it answers with an error. *)
Refused(op, g) ==
    [game |-> g, last |-> [op |-> op, success |-> FALSE, score |-> 0,
                           mid |-> NoState, state |-> NoState]]

(* What a handler leaves behind when the engine accepted the request: mid  *)
(* is the game after the human's move, g2 the game after the AI turn.      *)
Accepted(op, score, mid, g2) ==
    [game |-> g2, last |-> [op |-> op, success |-> TRUE, score |-> score,
                            mid |-> buildStateResponse(mid),
                            state |-> buildStateResponse(g2)]]

(* The handler from the engine's answer r on. *)
AfterEngine(op, r, score, rev) ==
    IF score < 0 THEN Refused(op, r.game)
    ELSE CHOOSE o \in {Accepted(op, score, r.game, g2) :
                          g2 \in {AITurnAfter(r.game, rev)}} : TRUE

HandlePlay(g, req, rev) ==
    IF ~SlotsValid(CurrentHand(g), req) THEN Refused("play", g)
    ELSE CHOOSE o \in {AfterEngine("play", r, r.ret, rev) :
                          r \in {PlayTiles(g, RequestPlacements(CurrentHand(g), req))}} : TRUE

(* A swap request names 1-based slots; the handler passes them on unchecked. *)
SwapRequests == SeqsUpTo(0..(MaxHandSize + 1), MaxSwap)

HandleSwap(g, req, rev) ==
    CHOOSE o \in {AfterEngine("swap", r, IF r.ret THEN 0 ELSE -1, rev) :
                     r \in {SwapTiles(g, [i \in 1..Len(req) |-> req[i] - 1])}} : TRUE

VsCanAct == Len(game.moveHistory) < VsMaxTurns

DoHandlePlay ==
    /\ VsCanAct
    /\ \E o \in {HandlePlay(game, req, rev) : req \in PlayRequests, rev \in BOOLEAN} :
          /\ game' = o.game
          /\ last' = o.last
    /\ UNCHANGED srv

DoHandleSwap ==
    /\ VsCanAct
    /\ \E o \in {HandleSwap(game, req, rev) : req \in SwapRequests, rev \in BOOLEAN} :
          /\ game' = o.game
          /\ last' = o.last
    /\ UNCHANGED srv

VsNext == DoHandlePlay \/ DoHandleSwap

SpecVsAI == Init /\ [][VsNext]_vars

-----------------------------------------------------------------------------
(* The win-probability estimator: playouts of the session's game *)

maxTurns == 100

NSimulations == 2

(* Bag.Clone: the tiles in their order, and a generator seeded afresh. *)
BagClone(bag, newSeed) == [tiles |-> bag.tiles, rng |-> RngSeed(newSeed)]

(* The light clone: the game without its history. *)
CloneForSimulation(g) == [g EXCEPT !.moveHistory = << >>]

(* PlayTiles for a move the generator produced: no validation, the score   *)
(* is the one the generator computed.                                      *)
PlayTilesPrevalidated(g, placements, score) ==
    LET b == ApplyPlacements(g.board, placements)
        cp == g.currentPlayer
        f == Refill(RemovePlayed(g.hands[cp], placements), g.bag)
        g1 == [g EXCEPT !.board = b,
                        !.scores[cp] = @ + score,
                        !.hands[cp] = f.hand,
                        !.bag = f.bag,
                        !.moveHistory = Append(@, MoveRecord(cp, placements, score, FALSE, 0))]
        g2 == CheckGameOver(g1)
    IN  IF ~g2.gameOver THEN [g2 EXCEPT !.currentPlayer = OtherPlayer(g2)] ELSE g2

(* One pass of the playout loop. *)
SimStep(sg, move) ==
    IF move # NoMove
    THEN [game |-> PlayTilesPrevalidated(sg, move.placements, move.score),
          step |-> [kind |-> "play", placements |-> move.placements]]
    ELSE IF Remaining(sg.bag) > 0 /\ HandSize(CurrentHand(sg)) > 0
    THEN [game |-> SwapTiles(sg, <<0>>).game,
          step |-> [kind |-> "swap", placements |-> << >>]]
    ELSE [game |-> [sg EXCEPT !.gameOver = TRUE],
          step |-> [kind |-> "stop", placements |-> << >>]]

(* One turn of the playout loop. *)
SimTurn(sg, rev) ==
    CHOOSE o \in {SimStep(sg, move) :
                     move \in {SelectMove(sg, GenerateAllMoves(sg, rev))}} : TRUE

ResultCode(sg) ==
    IF sg.scores[0] > sg.scores[1] THEN 0
    ELSE IF sg.scores[1] > sg.scores[0] THEN 1
    ELSE 2

(* The results the playout loop can end with, one for each way the         *)
(* candidate cells can be listed on each pass.                             *)
RECURSIVE Playouts(_, _, _)
Playouts(sg, turns, steps) ==
    IF sg.gameOver \/ turns >= maxTurns
    THEN {[steps |-> steps, scores |-> sg.scores, code |-> ResultCode(sg),
           turns |-> turns, gameOver |-> sg.gameOver, winner |-> sg.winner]}
    ELSE UNION {Playouts(o.game, turns + 1, Append(steps, o.step)) :
                    o \in {SimTurn(sg, rev) : rev \in BOOLEAN}}

runSingleSimulation(g, simIdx) ==
    Playouts([CloneForSimulation(g) EXCEPT !.bag = BagClone(g.bag, g.seed + simIdx + 1)],
             0, << >>)

Tally(codes, c) == Cardinality({i \in DOMAIN codes : codes[i] = c})

(* HandleWinProbability: the outcome of a finished game, the tallies of    *)
(* the playouts otherwise.                                                 *)
WinProbability(g, runs) ==
    IF g.gameOver
    THEN [op |-> "winprob", n |-> 1, runs |-> << >>,
          wins |-> [c \in 0..2 |-> IF c = (IF g.winner \in {0, 1} THEN g.winner ELSE 2)
                                   THEN 1 ELSE 0]]
    ELSE [op |-> "winprob", n |-> NSimulations, runs |-> runs,
          wins |-> [c \in 0..2 |-> Tally([i \in DOMAIN runs |-> runs[i].code], c)]]

(* One result for each simulation index. *)
RunChoices(sims) ==
    {runs \in [DOMAIN sims -> UNION {sims[i] : i \in DOMAIN sims}] :
        \A i \in DOMAIN sims : runs[i] \in sims[i]}

runSimulationsParallel(g, n) ==
    RunChoices([i \in 0..(n - 1) |-> runSingleSimulation(g, i)])

DoWinProbability ==
    /\ \E o \in {WinProbability(game, runs) : runs \in runSimulationsParallel(game, NSimulations)} :
          last' = o
    /\ UNCHANGED <<game, srv>>

EstMaxTurns == 2

EstCanAct == Len(game.moveHistory) < EstMaxTurns

DoEstimatePlay == EstCanAct /\ DoHandlePlay

DoEstimateSwap == EstCanAct /\ DoHandleSwap

EstimateNext == DoEstimatePlay \/ DoEstimateSwap \/ DoWinProbability

SpecEstimate == Init /\ [][EstimateNext]_vars

-----------------------------------------------------------------------------
(* runSimulationsParallel step by step: the caller, the workers and the    *)
(* two channels.  ran and posted count, for each simulation index, the     *)
(* playouts run and the codes posted; turns is the longest playout so far. *)

PoolMaxN == 2

(* The games the estimator is asked about: new games, and the game of seed *)
(* 1 after a refused swap of slots 1 and 3 and the play of slot 1 at the   *)
(* origin, where the bag is empty and the player to move has no move.      *)
AfterRefusedSwapAndPlay ==
    HandlePlay(HandleSwap(NewGame(1), <<1, 3>>, FALSE).game,
               <<[pos |-> Origin, tileIndex |-> 1]>>, FALSE).game

PoolGames == {NewGame(seed) : seed \in Seeds} \cup {AfterRefusedSwapAndPlay}

PoolInit ==
    /\ game \in PoolGames
    /\ last = NoOp
    /\ srv = NoServer

(* A receive that leaves the value in the channel. *)
ReceiveKeeps(ch) == [value |-> Head(ch), rest |-> ch]

(* Receiving from a channel takes its first value out. *)
Receive(ch) == [value |-> Head(ch), rest |-> Tail(ch)]

(* The caller's switch on a received code. *)
TallyAdd(wins, code) == IF code \in 0..2 THEN [wins EXCEPT ![code] = @ + 1] ELSE wins

(* The caller makes the channels and starts the workers. *)
DoStartPool ==
    /\ srv.pool.pc = "idle"
    /\ ~game.gameOver
    /\ \E n \in 1..PoolMaxN :
          srv' = [srv EXCEPT !.pool =
                     [NoPool EXCEPT !.pc = "send", !.n = n,
                                    !.workers = [w \in Workers |-> [NoWorker EXCEPT !.pc = "recv"]],
                                    !.ran = [i \in 1..n |-> 0],
                                    !.posted = [i \in 1..n |-> 0]]]
    /\ last' = [op |-> "pool", step |-> "start"]
    /\ UNCHANGED game

(* The caller's sending loop ends before the last job is sent. *)
MoreJobsStopsEarly(sent, n) == sent < n - 1

(* The condition of the caller's sending loop. *)
MoreJobs(sent, n) == sent < n

(* jobs <- i, for the channel holds n. *)
DoSendJob ==
    /\ srv.pool.pc = "send"
    /\ MoreJobs(srv.pool.sent, srv.pool.n)
    /\ Len(srv.pool.jobs) < srv.pool.n
    /\ srv' = [srv EXCEPT !.pool.jobs = Append(@, srv.pool.sent),
                          !.pool.sent = @ + 1]
    /\ last' = [op |-> "pool", step |-> "job"]
    /\ UNCHANGED game

(* close(jobs) *)
DoCloseJobs ==
    /\ srv.pool.pc = "send"
    /\ ~MoreJobs(srv.pool.sent, srv.pool.n)
    /\ srv' = [srv EXCEPT !.pool.closed = TRUE, !.pool.pc = "collect"]
    /\ last' = [op |-> "pool", step |-> "close"]
    /\ UNCHANGED game

(* A worker's `for simIdx := range jobs`: it takes the next index, or     *)
(* leaves the loop when the channel is closed and drained.                 *)
DoWorkerReceive ==
    /\ \E w \in Workers :
          /\ srv.pool.workers[w].pc = "recv"
          /\ \/ /\ Len(srv.pool.jobs) > 0
                /\ srv' = [srv EXCEPT !.pool.jobs = Receive(srv.pool.jobs).rest,
                                      !.pool.workers[w] =
                                          [pc |-> "run",
                                           simIdx |-> Receive(srv.pool.jobs).value,
                                           result |-> -1]]
             \/ /\ Len(srv.pool.jobs) = 0
                /\ srv.pool.closed
                /\ srv' = [srv EXCEPT !.pool.workers[w].pc = "exit"]
    /\ last' = [op |-> "pool", step |-> "receive"]
    /\ UNCHANGED game

(* result := s.runSingleSimulation(game, simIdx) *)
DoWorkerRun ==
    /\ \E w \in Workers :
          /\ srv.pool.workers[w].pc = "run"
          /\ LET simIdx == srv.pool.workers[w].simIdx
             IN  \E o \in {[code |-> x.code, turns |-> x.turns] :
                              x \in runSingleSimulation(game, simIdx)} :
                    srv' = [srv EXCEPT !.pool.workers[w].pc = "post",
                                       !.pool.workers[w].result = o.code,
                                       !.pool.ran[simIdx + 1] = @ + 1,
                                       !.pool.turns = MaxOf({@, o.turns})]
    /\ last' = [op |-> "pool", step |-> "run"]
    /\ UNCHANGED game

(* results <- result, for the channel holds n. *)
DoWorkerPost ==
    /\ \E w \in Workers :
          /\ srv.pool.workers[w].pc = "post"
          /\ Len(srv.pool.results) < srv.pool.n
          /\ srv' = [srv EXCEPT !.pool.results = Append(@, srv.pool.workers[w].result),
                                !.pool.posted[srv.pool.workers[w].simIdx + 1] = @ + 1,
                                !.pool.workers[w].pc = "recv"]
    /\ last' = [op |-> "pool", step |-> "post"]
    /\ UNCHANGED game

(* The caller takes one code from results and tallies it. *)
DoCollect ==
    /\ srv.pool.pc = "collect"
    /\ srv.pool.collected < srv.pool.n
    /\ Len(srv.pool.results) > 0
    /\ srv' = [srv EXCEPT !.pool.results = Receive(srv.pool.results).rest,
                          !.pool.wins = TallyAdd(@, Receive(srv.pool.results).value),
                          !.pool.collected = @ + 1]
    /\ last' = [op |-> "pool", step |-> "collect"]
    /\ UNCHANGED game

(* The caller returns the tallies, and the handler answers with them. *)
DoReturnTallies ==
    /\ srv.pool.pc = "collect"
    /\ srv.pool.collected = srv.pool.n
    /\ srv' = [srv EXCEPT !.pool.pc = "done"]
    /\ last' = [op |-> "winprob", n |-> srv.pool.n, runs |-> << >>, wins |-> srv.pool.wins]
    /\ UNCHANGED game

PoolNext ==
    \/ DoStartPool
    \/ DoSendJob
    \/ DoCloseJobs
    \/ DoWorkerReceive
    \/ DoWorkerRun
    \/ DoWorkerPost
    \/ DoCollect
    \/ DoReturnTallies

SpecPool == PoolInit /\ [][PoolNext]_vars

(* A worker holding a job can run its playout. *)
WorkerRunEnabled == \E w \in Workers : srv.pool.workers[w].pc = "run"

PoolSteps ==
    \/ DoStartPool
    \/ DoSendJob
    \/ DoCloseJobs
    \/ DoWorkerReceive
    \/ DoWorkerPost
    \/ DoCollect
    \/ DoReturnTallies

(* The scheduler lets a goroutine that can run take its step: weak         *)
(* fairness of the channel steps, and of the playout step with its         *)
(* enabling condition written out.                                         *)
PoolFairness ==
    /\ WF_vars(PoolSteps)
    /\ ([]<>(~WorkerRunEnabled) \/ []<><<DoWorkerRun>>_vars)

SpecPoolFair == PoolInit /\ [][PoolNext]_vars /\ PoolFairness

-----------------------------------------------------------------------------
(* GameState.Clone and a play on the clone *)

(* The nil *Bag. *)
NilBag == [nil |-> TRUE]

IsNilBag(bag) == "nil" \in DOMAIN bag

(* Clone copies the board, the hands, the scores, the turn, the flags, the *)
(* seed and the history, and leaves the Bag field unset.                   *)
Clone(g) == [g EXCEPT !.bag = NilBag]

(* checkGameOver asks the bag only when it meets an empty hand. *)
CheckGameOverDerefsBag(g) == \E i \in Players : HandSize(g.hands[i]) = 0

(* PlayTiles on a state whose bag may be nil: Refill and checkGameOver     *)
(* dereference the bag, and the call panics there with the writes made so  *)
(* far left in place.                                                      *)
PlayTilesOnClone(g, placements) ==
    IF ~IsNilBag(g.bag)
    THEN LET r == PlayTiles(g, placements)
         IN  [game |-> r.game, ret |-> r.ret, panic |-> FALSE]
    ELSE IF g.gameOver THEN [game |-> g, ret |-> -1, panic |-> FALSE]
    ELSE LET isFirst == BoardIsEmpty(g.board)
             v == ValidateMove(g.board, placements, isFirst)
         IN  IF ~v.valid THEN [game |-> [g EXCEPT !.board = v.board], ret |-> -1, panic |-> FALSE]
             ELSE LET b == ApplyPlacements(v.board, placements)
                      score == ScoreMove(b, placements)
                      cp == g.currentPlayer
                      h == RemovePlayed(g.hands[cp], placements)
                      g1 == [g EXCEPT !.board = b, !.scores[cp] = @ + score, !.hands[cp] = h]
                      g2 == [g1 EXCEPT !.moveHistory =
                                Append(@, MoveRecord(cp, placements, score, FALSE, 0))]
                  IN  IF MaxHandSize - HandSize(h) > 0
                      THEN [game |-> g1, ret |-> -1, panic |-> TRUE]
                      ELSE IF CheckGameOverDerefsBag(g2)
                      THEN [game |-> g2, ret |-> -1, panic |-> TRUE]
                      ELSE [game |-> [g2 EXCEPT !.currentPlayer = OtherPlayer(g2)],
                            ret |-> score, panic |-> FALSE]

ClonePlayStep(g, placements) ==
    [op |-> "cloneplay", n |-> Len(placements),
     original |-> PlayTiles(g, placements),
     clone |-> PlayTilesOnClone(Clone(g), placements)]

(* The same placements played on the game and on a clone of it; the game   *)
(* itself is left as it is.                                                *)
DoPlayOnClone ==
    /\ \E o \in {ClonePlayStep(game, placements) : placements \in PlacementLists(game)} :
          last' = o
    /\ UNCHANGED <<game, srv>>

CloneMaxTurns == 1

CloneCanAct == Len(game.moveHistory) < CloneMaxTurns

DoCloneSpecPlay == CloneCanAct /\ DoPlayTiles

DoCloneSpecSwap == CloneCanAct /\ DoSwapTiles

CloneNext == DoCloneSpecPlay \/ DoCloneSpecSwap \/ DoPlayOnClone

SpecClone == Init /\ [][CloneNext]_vars

-----------------------------------------------------------------------------
(* The server with requests in flight on one session *)

LockingKinds == {"play", "swap", "aistep"}

ReadingKinds == {"state", "hint", "winprob"}

ServerCells == {Origin, Position(0, 1)}

(* The arguments the requests of each kind are sent with. *)
RequestArgs(kind) ==
    IF kind = "play"
    THEN {<<[pos |-> p, tileIndex |-> i]>> : p \in ServerCells, i \in 1..MaxHandSize}
    ELSE IF kind = "swap" THEN {<<1>>}
    ELSE {<< >>}

(* HandleHint names each tile of the move by the first hand slot holding it. *)
HintTileIndex(h, tile) ==
    IF HandContains(h, tile)
    THEN CHOOSE j \in 1..Len(h) : h[j] = tile /\ \A k \in 1..(j - 1) : h[k] # tile
    ELSE 1

HintReply(g, move) ==
    IF move = NoMove THEN [hasMove |-> FALSE, score |-> 0, placements |-> << >>]
    ELSE [hasMove |-> TRUE, score |-> move.score,
          placements |-> [i \in 1..Len(move.placements) |->
                             [pos |-> move.placements[i].pos,
                              tileIndex |-> HintTileIndex(CurrentHand(g),
                                                          move.placements[i].tile)]]]

HandleHint(g, rev) == CHOOSE o \in {HintReply(g, move) : move \in {GetMove(g, rev)}} : TRUE

(* HandleAIStep between Lock and Unlock. *)
HandleAIStep(g, rev) == IF g.gameOver THEN g ELSE makeAIMove(g, rev)

(* What a request of each locking kind does between Lock and Unlock. *)
PlaySection(arg, g) ==
    {[game |-> o.game, success |-> o.last.success, score |-> o.last.score] :
        o \in {HandlePlay(g, arg, rev) : rev \in BOOLEAN}}

SwapSection(arg, g) ==
    {[game |-> o.game, success |-> o.last.success, score |-> 0] :
        o \in {HandleSwap(g, arg, rev) : rev \in BOOLEAN}}

AIStepSection(g) ==
    {[game |-> HandleAIStep(g, rev), success |-> TRUE, score |-> 0] : rev \in BOOLEAN}

LockedSection(kind, arg, g) ==
    IF kind = "play" THEN PlaySection(arg, g)
    ELSE IF kind = "swap" THEN SwapSection(arg, g)
    ELSE AIStepSection(g)

(* What a request of each reading kind answers on the game as it finds it. *)
StateReplies(g) == {buildStateResponse(g)}

HintReplies(g) == {HandleHint(g, rev) : rev \in BOOLEAN}

WinProbReplies(g) ==
    {WinProbability(g, runs).wins :
        runs \in RunChoices([i \in 0..(NSimulations - 1) |->
                                {[code |-> p.code] : p \in runSingleSimulation(g, i)}])}

ReadReplies(kind, g) ==
    IF kind = "state" THEN StateReplies(g)
    ELSE IF kind = "hint" THEN HintReplies(g)
    ELSE WinProbReplies(g)

Done(r) == srv.reqs[r].pc = "done"

Touch(r) == [op |-> "touch", req |-> r, kind |-> srv.reqs[r].kind, locked |-> srv.mu = r]

(* A request arrives. *)
DoReceive ==
    /\ \E r \in Requests, kind \in LockingKinds \cup ReadingKinds :
          /\ srv.reqs[r].pc = "idle"
          /\ \E arg \in RequestArgs(kind) :
                srv' = [srv EXCEPT !.reqs[r] =
                           [NoRequest EXCEPT !.kind = kind, !.arg = arg, !.pc = "start",
                                             !.after = {q \in Requests : Done(q)}]]
          /\ last' = [op |-> "receive", req |-> r, kind |-> kind, locked |-> FALSE]
    /\ UNCHANGED game

(* s.mu.Lock() *)
DoLock ==
    /\ \E r \in Requests :
          /\ srv.reqs[r].pc = "start"
          /\ srv.reqs[r].kind \in LockingKinds
          /\ srv.mu = 0
          /\ srv' = [srv EXCEPT !.mu = r, !.reqs[r].pc = "locked"]
          /\ last' = [op |-> "lock", req |-> r, kind |-> srv.reqs[r].kind, locked |-> TRUE]
    /\ UNCHANGED game

(* The handler of a locking kind from Lock to Unlock: a failed request is  *)
(* answered at once, a successful one goes on to build its reply.          *)
RunLocked(r, kind, outcomes) ==
        /\ srv.reqs[r].pc = "locked"
        /\ srv.reqs[r].kind = kind
        /\ \E o \in outcomes :
              /\ game' = o.game
              /\ srv' = [srv EXCEPT !.mu = 0,
                                    !.reqs[r].success = o.success,
                                    !.reqs[r].score = o.score,
                                    !.reqs[r].pc = IF o.success THEN "reply" ELSE "done"]
        /\ last' = Touch(r)

DoServePlay ==
    \E r \in Requests : RunLocked(r, "play", PlaySection(srv.reqs[r].arg, game))

DoServeSwap ==
    \E r \in Requests : RunLocked(r, "swap", SwapSection(srv.reqs[r].arg, game))

DoServeAIStep ==
    \E r \in Requests : RunLocked(r, "aistep", AIStepSection(game))

(* buildStateResponse, called after Unlock. *)
DoBuildReply ==
    /\ \E r \in Requests :
          /\ srv.reqs[r].pc = "reply"
          /\ srv' = [srv EXCEPT !.reqs[r].reply = <<buildStateResponse(game)>>,
                                !.reqs[r].pc = "done"]
          /\ last' = Touch(r)
    /\ UNCHANGED game

(* The session lookup of a reading handler, between RLock and RUnlock. *)
DoLookup ==
    /\ \E r \in Requests :
          /\ srv.reqs[r].pc = "start"
          /\ srv.reqs[r].kind \in ReadingKinds
          /\ srv.mu = 0
          /\ srv' = [srv EXCEPT !.reqs[r].pc = "found"]
          /\ last' = [op |-> "lookup", req |-> r, kind |-> srv.reqs[r].kind, locked |-> FALSE]
    /\ UNCHANGED game

(* The rest of a reading handler, after RUnlock. *)
RunReading(kind, replies) ==
    /\ \E r \in Requests :
          /\ srv.reqs[r].pc = "found"
          /\ srv.reqs[r].kind = kind
          /\ \E o \in replies :
                srv' = [srv EXCEPT !.reqs[r].reply = <<o>>,
                                   !.reqs[r].success = TRUE,
                                   !.reqs[r].pc = "done"]
          /\ last' = Touch(r)
    /\ UNCHANGED game

DoServeGetState == RunReading("state", StateReplies(game))

DoServeHint == RunReading("hint", HintReplies(game))

DoServeWinProbability == RunReading("winprob", WinProbReplies(game))

ServerNext ==
    \/ DoReceive
    \/ DoLock
    \/ DoServePlay
    \/ DoServeSwap
    \/ DoServeAIStep
    \/ DoBuildReply
    \/ DoLookup
    \/ DoServeGetState
    \/ DoServeHint
    \/ DoServeWinProbability

SpecServer == Init /\ [][ServerNext]_vars

-----------------------------------------------------------------------------
(* A hint request beside a play or get-state request on the same session:  *)
(* HandleHint runs the generator on the live board without the lock, so    *)
(* each Set and Remove of a probe is a step other requests interleave with *)

HintProbes == 2

HintRequest == 1

OtherRequest == 2

RaceInit ==
    /\ \E seed \in Seeds : game = NewGame(seed)
    /\ last = NoOp
    /\ srv = [NoServer EXCEPT !.reqs[HintRequest] =
                  [NoRequest EXCEPT !.kind = "hint", !.pc = "start"]]

DoRaceReceive ==
    /\ srv.reqs[OtherRequest].pc = "idle"
    /\ \E kind \in {"play", "state"} : \E arg \in RequestArgs(kind) :
          /\ srv' = [srv EXCEPT !.reqs[OtherRequest] =
                         [NoRequest EXCEPT !.kind = kind, !.arg = arg, !.pc = "start",
                                           !.after = {q \in Requests : Done(q)}]]
          /\ last' = [op |-> "receive", req |-> OtherRequest, kind |-> kind, locked |-> FALSE]
    /\ UNCHANGED game

(* The cells and tiles the generator probes on the board as it stands. *)
ProbeCells(g) == SeqToSet(getCandidatePositions(g.board, BoardIsEmpty(g.board), FALSE))

(* board.Has(pos) answers false: the probe of a hand tile at pos goes on. *)
DoHintCheck ==
    /\ srv.reqs[HintRequest].pc = "found"
    /\ srv.reqs[HintRequest].score < HintProbes
    /\ \E pos \in ProbeCells(game), tile \in SeqToSet(CurrentHand(game)) :
          /\ ~BoardHas(game.board, pos)
          /\ srv' = [srv EXCEPT !.reqs[HintRequest].pc = "checked",
                                !.reqs[HintRequest].arg = <<Placement(pos, tile)>>,
                                !.reqs[HintRequest].score = @ + 1]
    /\ last' = Touch(HintRequest)
    /\ UNCHANGED game

(* board.Set(pos, tile) of the probe. *)
DoHintSet ==
    /\ srv.reqs[HintRequest].pc = "checked"
    /\ game' = [game EXCEPT !.board = BoardSet(@, srv.reqs[HintRequest].arg[1].pos,
                                                srv.reqs[HintRequest].arg[1].tile)]
    /\ srv' = [srv EXCEPT !.reqs[HintRequest].pc = "set"]
    /\ last' = Touch(HintRequest)

(* board.Remove(pos) of the probe. *)
DoHintRemove ==
    /\ srv.reqs[HintRequest].pc = "set"
    /\ game' = [game EXCEPT !.board = BoardRemove(@, srv.reqs[HintRequest].arg[1].pos)]
    /\ srv' = [srv EXCEPT !.reqs[HintRequest].pc = "found"]
    /\ last' = Touch(HintRequest)

RaceNext ==
    \/ DoRaceReceive
    \/ DoLock
    \/ DoServePlay
    \/ DoBuildReply
    \/ DoLookup
    \/ DoServeGetState
    \/ DoHintCheck
    \/ DoHintSet
    \/ DoHintRemove
    \/ DoServeHint

SpecHintRace == RaceInit /\ [][RaceNext]_vars

-----------------------------------------------------------------------------
(* Helpers of the properties *)

(* The placement lists over the grid that use tiles of the current hand,  *)
(* each hand tile at most once.                                            *)
HandLists(g) ==
    {l \in SeqsUpTo({Placement(p, t) : p \in GridPositions, t \in SeqToSet(CurrentHand(g))},
                    MaxPlace) : InHand(CurrentHand(g), l)}

Accepts(g, l) == ValidateMove(g.board, l, BoardIsEmpty(g.board)).valid

ScoreIfPlayed(g, l) == ScoreMove(ApplyPlacements(g.board, l), l)

SortedByScore(moves) ==
    \A i \in 1..(Len(moves) - 1) : moves[i].score >= moves[i + 1].score

(* Every ordering of a placement list. *)
Orderings(l) ==
    {[i \in 1..Len(l) |-> l[f[i]]] :
        f \in {g \in [1..Len(l) -> 1..Len(l)] : \A i, j \in 1..Len(l) : g[i] = g[j] => i = j}}

PositionsOf(l) == {l[i].pos : i \in 1..Len(l)}

DistinctPositions(l) == Cardinality(PositionsOf(l)) = Len(l)

Collinear(l) ==
    \/ \A i \in 1..Len(l) : l[i].pos.row = l[1].pos.row
    \/ \A i \in 1..Len(l) : l[i].pos.col = l[1].pos.col

(* The cells of the maximal occupied run through pos, along rows or columns. *)
RunCells(b, pos, dir) ==
    LET cell(k) == IF dir = "h" THEN Position(pos.row, k) ELSE Position(k, pos.col)
        at == IF dir = "h" THEN pos.col ELSE pos.row
    IN  {cell(n) : n \in {k \in (at - MaxLineLen)..(at + MaxLineLen) :
                             \A m \in (IF k <= at THEN k..at ELSE at..k) :
                                 BoardHas(b, cell(m))}}

(* The tiles of a run, leftmost or topmost first. *)
RunTiles(b, cells, dir) ==
    LET key(p) == IF dir = "h" THEN p.col ELSE p.row
        lo == CHOOSE k \in {key(p) : p \in cells} : \A p \in cells : k <= key(p)
    IN  [i \in 1..Cardinality(cells) |->
            BoardGet(b, CHOOSE p \in cells : key(p) = lo + i - 1)]

(* The distinct lines of length >= 2 that hold a placement of the move. *)
TouchedLines(b, l) ==
    {ln \in {[dir |-> d, cells |-> RunCells(b, p, d)] : d \in {"h", "v"}, p \in PositionsOf(l)} :
        Cardinality(ln.cells) >= 2}

RECURSIVE SumLines(_)
SumLines(lines) ==
    IF lines = {} THEN 0
    ELSE LET ln == CHOOSE x \in lines : TRUE
         IN  Cardinality(ln.cells)
               + (IF Cardinality(ln.cells) = QwirkleLen THEN QwirkleBonus ELSE 0)
               + SumLines(lines \ {ln})

DistinctLineScore(b, l) ==
    IF TouchedLines(b, l) = {} THEN 1 ELSE SumLines(TouchedLines(b, l))

TouchedLinesValid(b, l) ==
    LET after == ApplyPlacements(b, l)
    IN  \A p \in PositionsOf(l) : \A d \in {"h", "v"} :
            IsValidLine(RunTiles(after, RunCells(after, p, d), d))

SpanOccupied(b, l) ==
    LET after == ApplyPlacements(b, l)
        P == PositionsOf(l)
    IN  \A p, q \in P :
            \A r \in p.row..q.row : \A c \in p.col..q.col :
                BoardHas(after, Position(r, c))

(* The set-based conditions of a move on a board that holds tiles. *)
SetBasedValid(b, l) ==
    /\ DistinctPositions(l)
    /\ \A p \in PositionsOf(l) : ~BoardHas(b, p)
    /\ Collinear(l)
    /\ \E p \in PositionsOf(l) : HasNeighbor(b, p)
    /\ SpanOccupied(b, l)
    /\ TouchedLinesValid(b, l)

(* The conditions of a first move, the origin set apart. *)
SingleValidLine(b, l) ==
    /\ DistinctPositions(l)
    /\ Collinear(l)
    /\ SpanOccupied(b, l)
    /\ TouchedLinesValid(b, l)

-----------------------------------------------------------------------------
(* C1: a successful play scores the sum of the lengths of the distinct    *)
(* lines of length >= 2 that hold one of its placements, plus 6 for each   *)
(* such line of length 6, and 1 when there is no such line; lines are      *)
(* distinct when they occupy different cells.                              *)
C1_ScoreIsDistinctLineSum ==
    (last.op = "play" /\ last.ret >= 0) =>
        last.ret = DistinctLineScore(game.board,
                                     game.moveHistory[Len(game.moveHistory)].placements)

(* C2: on a board that holds tiles, ValidateMove accepts a multi-tile     *)
(* list exactly when the set-based conditions hold, whatever the order of  *)
(* the list.                                                               *)
C2_ValidateMoveSetBased ==
    ~BoardIsEmpty(game.board) =>
        \A l \in RulesLists :
            Len(l) >= 2 =>
                \A o \in Orderings(l) :
                    ValidateMove(game.board, o, FALSE).valid = SetBasedValid(game.board, l)

(* C3: on the empty board, ValidateMove rejects every list without a      *)
(* placement at (0,0) and accepts every list that holds (0,0) and forms a  *)
(* single valid contiguous line, wherever (0,0) stands in the list.        *)
C3_FirstMoveOrigin ==
    BoardIsEmpty(game.board) =>
        \A l \in RulesLists :
            Len(l) >= 1 =>
                /\ Origin \notin PositionsOf(l) => ~ValidateMove(game.board, l, TRUE).valid
                /\ (Origin \in PositionsOf(l) /\ SingleValidLine(game.board, l))
                      => ValidateMove(game.board, l, TRUE).valid

-----------------------------------------------------------------------------
(* C4: PlayTiles rejects, leaving the game unchanged, every move that     *)
(* places a tile the current hand does not hold (counting multiplicity)    *)
(* and every move that targets an occupied position.                       *)
C4_PlayRejectsForeignOrOccupied ==
    [][(last'.op = "play" /\ (~last'.inHand \/ last'.occupied))
          => (last'.ret = -1 /\ game' = game)]_vars

(* C5: whenever SwapTiles returns false the hands, bag, board, scores,    *)
(* current player and history are what they were before the call.         *)
C5_FailedSwapChangesNothing ==
    [][(last'.op = "swap" /\ last'.ret = FALSE) => game' = game]_vars

(* C6: whenever PlayTiles returns -1 on a game that is not over, the      *)
(* board, hands, bag, scores, current player, game-over flag and history   *)
(* are what they were before the call.                                     *)
C6_RejectedPlayChangesNothing ==
    [][(last'.op = "play" /\ last'.ret = -1 /\ ~game.gameOver) => game' = game]_vars

(* A multi-tile play on open cells of a board that holds tiles was        *)
(* rejected by the rules kernel.                                           *)
C6_Witness ==
    /\ last.op = "play" /\ last.ret = -1 /\ last.n >= 2 /\ ~last.occupied
    /\ ~game.gameOver
    /\ ~BoardIsEmpty(game.board)

(* C7: once the game is over, every PlayTiles returns -1, every SwapTiles *)
(* returns false, and no part of the game state changes.                   *)
C7_FinishedGameIsFrozen ==
    [][game.gameOver =>
          /\ game' = game
          /\ last'.op = "play" => last'.ret = -1
          /\ last'.op = "swap" => last'.ret = FALSE]_vars

(* A play was attempted on a finished game. *)
C7_Witness == game.gameOver /\ last.op = "play" /\ last.ret = -1

(* C8: the game becomes over exactly at a successful PlayTiles after      *)
(* which the bag is empty and some hand is empty; at that step the player  *)
(* with the empty hand gets the end bonus once, and no other step gives    *)
(* it.                                                                     *)
C8_GameOverExactlyWhenOut ==
    [][LET played == last'.op = "play" /\ last'.ret >= 0 /\ game' # game
           out == {i \in Players : HandSize(game'.hands[i]) = 0}
           ends == ~game.gameOver /\ game'.gameOver
       IN  /\ ends <=> (played /\ BagIsEmpty(game'.bag) /\ out # {})
           /\ \A i \in Players :
                 game'.scores[i] =
                     game.scores[i]
                       + (IF played /\ i = game.currentPlayer THEN last'.ret ELSE 0)
                       + (IF ends /\ i \in out THEN EndBonus ELSE 0)]_vars

(* The play that ended the game has just been made. *)
C8_Witness ==
    /\ game.gameOver /\ last.op = "play" /\ last.ret >= 0
    /\ BagIsEmpty(game.bag)
    /\ \E i \in Players : HandSize(game.hands[i]) = 0 /\ game.scores[i] >= EndBonus

-----------------------------------------------------------------------------
(* C9: the generated list holds every valid move of the current player,   *)
(* as a set of tile placements, and is sorted by score descending.         *)
C9_AllValidMovesGenerated ==
    last.op = "hint" =>
        /\ \A l \in HandLists(game) :
              Accepts(game, l) =>
                  \E i \in 1..Len(last.moves) :
                      SeqToSet(last.moves[i].placements) = SeqToSet(l)
        /\ SortedByScore(last.moves)

(* C10: the greedy move has the maximum score among the moves of the      *)
(* current player that ValidateMove accepts, and no move is returned only  *)
(* when none exists.                                                       *)
C10_GreedyIsMaximal ==
    last.op = "hint" =>
        IF last.move = NoMove
        THEN \A l \in HandLists(game) : ~Accepts(game, l)
        ELSE \A l \in HandLists(game) :
                Accepts(game, l) => ScoreIfPlayed(game, l) <= last.move.score

-----------------------------------------------------------------------------
(* C11: every move the generator produces is valid as it stands:          *)
(* ValidateMove accepts its placements in the listed order, its tiles are  *)
(* in the current hand, and ScoreMove after applying it equals its Score.  *)
C11_GeneratedMovesAreValid ==
    last.op = "hint" =>
        \A i \in 1..Len(last.moves) :
            LET m == last.moves[i]
            IN  /\ Accepts(game, m.placements)
                /\ InHand(CurrentHand(game), m.placements)
                /\ ScoreIfPlayed(game, m.placements) = m.score

(* The generator produced a multi-tile move on a board that holds tiles. *)
C11_Witness ==
    /\ last.op = "hint"
    /\ ~BoardIsEmpty(game.board)
    /\ \E i \in 1..Len(last.moves) : Len(last.moves[i].placements) >= 2

-----------------------------------------------------------------------------
(* C12: every game of the batch simulator terminates: while the game is   *)
(* not over and the loop has not stopped, the next pass of the loop        *)
(* changes the game, whatever order the candidate cells are visited in.    *)
C12_BatchGameTerminates ==
    \/ game.gameOver
    \/ Len(game.moveHistory) >= BatchMaxTurns
    \/ \A rev \in BOOLEAN : RunGameTurn(game, rev).game # game

(* C13: in human-vs-AI mode the reply to a successful play or swap that   *)
(* left the game unfinished shows the human player as the current player:  *)
(* one AI turn was executed before the reply.                              *)
C13_ReplyShowsHumanToMove ==
    (last.op \in {"play", "swap"} /\ last.success /\ ~last.mid.gameOver)
        => last.state.currentPlayer # AIPlayer

(* C14: two playouts of the same state with the same seed offset make the *)
(* same moves and swaps and end with the same scores and outcome code.     *)
C14_PlayoutIsReproducible ==
    \A simIdx \in 0..(NSimulations - 1) :
        \A x, y \in runSingleSimulation(game, simIdx) :
            /\ x.steps = y.steps
            /\ x.scores = y.scores
            /\ x.code = y.code

(* C15: no request handler reads or writes the session's game at a       *)
(* moment when it does not hold the lock.                                  *)
C15_GameTouchedOnlyUnderLock == last.op = "touch" => last.locked

(* What a request answers when it runs alone on game g, and the game it   *)
(* leaves.                                                                 *)
SeqRun(kind, arg, g) ==
    IF kind \in LockingKinds
    THEN {[game |-> o.game, success |-> o.success, score |-> o.score,
           reply |-> IF o.success THEN <<buildStateResponse(o.game)>> ELSE << >>] :
              o \in LockedSection(kind, arg, g)}
    ELSE {[game |-> g, success |-> TRUE, score |-> 0, reply |-> <<o>>] :
              o \in ReadReplies(kind, g)}

RequestOrders ==
    {o \in [1..NumRequests -> Requests] : \A i, j \in 1..NumRequests : i # j => o[i] # o[j]}

(* A request that had been answered when another arrived comes before it. *)
RealTimeOrder(o) ==
    \A i, j \in 1..NumRequests : i < j => o[j] \notin srv.reqs[o[i]].after

RECURSIVE RepliesMatch(_, _)
RepliesMatch(g, o) ==
    IF Len(o) = 0 THEN TRUE
    ELSE LET q == srv.reqs[Head(o)]
         IN  \E x \in SeqRun(q.kind, q.arg, g) :
                /\ x.success = q.success
                /\ x.score = q.score
                /\ x.reply = q.reply
                /\ RepliesMatch(x.game, Tail(o))

(* C16: concurrent requests on one session are linearizable: once all are *)
(* answered, there is an order of the requests, consistent with real time, *)
(* in which every reply is what the request returns when run alone at its  *)
(* place in the order.                                                     *)
C16_RepliesLinearizable ==
    (\A r \in Requests : Done(r))
        => \E o \in RequestOrders : RealTimeOrder(o) /\ RepliesMatch(NewGame(game.seed), o)

(* C17: PlayTiles on a clone of a state returns what PlayTiles on the     *)
(* state returns, and leaves the clone with the board, hands, scores,      *)
(* current player and game-over flag the state is left with.               *)
C17_CloneBehavesAsOriginal ==
    last.op = "cloneplay" =>
        /\ ~last.clone.panic
        /\ last.clone.ret = last.original.ret
        /\ last.clone.game.board = last.original.game.board
        /\ last.clone.game.hands = last.original.game.hands
        /\ last.clone.game.scores = last.original.game.scores
        /\ last.clone.game.currentPlayer = last.original.game.currentPlayer
        /\ last.clone.game.gameOver = last.original.game.gameOver

(* C18: for every n and every interleaving of the workers, when          *)
(* runSimulationsParallel returns it has run one playout for each of the   *)
(* n indices, each playout has posted one code, and the tallies add up to  *)
(* n, so the fractions wins/n add up to 1.                                 *)
C18_TalliesAddUpToN ==
    /\ \A i \in DOMAIN srv.pool.ran :
          srv.pool.ran[i] <= 1 /\ srv.pool.posted[i] <= srv.pool.ran[i]
    /\ srv.pool.pc = "done" =>
          /\ \A i \in 1..srv.pool.n : srv.pool.ran[i] = 1 /\ srv.pool.posted[i] = 1
          /\ srv.pool.wins[0] + srv.pool.wins[1] + srv.pool.wins[2] = srv.pool.n
    /\ (last.op = "winprob" /\ srv.pool.pc = "done") =>
          /\ last.n = srv.pool.n
          /\ last.wins[0] + last.wins[1] + last.wins[2] = last.n

C18_Witness ==
    /\ last.op = "winprob"
    /\ srv.pool.pc = "done"
    /\ srv.pool.n = PoolMaxN
    /\ srv.pool.wins[0] > 0
    /\ srv.pool.wins[1] > 0

(* C19: the win-probability estimator terminates: no playout takes more  *)
(* than 100 turns, also from a game with an empty bag and no move for the  *)
(* player to move, and the caller of the worker pool, once started,        *)
(* reaches its return for every n and every schedule of the workers.       *)
C19_EstimatorTerminates ==
    /\ [](srv.pool.turns <= maxTurns)
    /\ (srv.pool.pc = "send") ~> (srv.pool.pc = "done")

C19_Witness ==
    /\ srv.pool.pc = "done"
    /\ srv.pool.n = PoolMaxN
    /\ srv.pool.turns >= 1
    /\ Remaining(game.bag) = 0
    /\ GetMove(game, FALSE) = NoMove

(* Every index names a slot of the hand and no slot is named twice. *)
DistinctValidSlots(h, indices) ==
    /\ \A i \in 1..Len(indices) : indices[i] \in 0..(Len(h) - 1)
    /\ \A i, j \in 1..Len(indices) : i # j => indices[i] # indices[j]

SwapAllowed(g, indices) ==
    /\ ~g.gameOver
    /\ Len(indices) > 0
    /\ Remaining(g.bag) >= Len(indices)
    /\ DistinctValidSlots(CurrentHand(g), indices)

(* The tiles of the hand at the slots that are not listed, in hand order. *)
RECURSIVE KeepSlots(_, _, _)
KeepSlots(h, listed, i) ==
    IF i > Len(h) THEN << >>
    ELSE (IF (i - 1) \in listed THEN << >> ELSE <<h[i]>>) \o KeepSlots(h, listed, i + 1)

(* The effect of a successful swap on a game: the listed slots leave the  *)
(* hand, the hand is refilled from the bag as it was before the call, the  *)
(* bag then holds what the refill left plus the removed tiles, and the     *)
(* other player is to move.                                                *)
SwapEffect(g, indices, after) ==
    LET cp == g.currentPlayer
        kept == KeepSlots(g.hands[cp], SeqToSet(indices), 1)
        f == Refill(kept, g.bag)
        gone == {i \in 1..Len(g.hands[cp]) : (i - 1) \in SeqToSet(indices)}
    IN  /\ after.hands[cp] = f.hand
        /\ \A t \in Tiles :
              Cardinality({i \in 1..Len(after.bag.tiles) : after.bag.tiles[i] = t})
                  = Cardinality({i \in 1..Len(f.bag.tiles) : f.bag.tiles[i] = t})
                      + Cardinality({i \in gone : g.hands[cp][i] = t})
        /\ after.currentPlayer = 1 - cp

(* C20: SwapTiles succeeds exactly when the game is not over, the index   *)
(* list is non-empty, the bag holds at least as many tiles as indices and  *)
(* every index is a valid distinct slot of the current hand; on success    *)
(* exactly the tiles at the listed slots leave the hand, the hand is       *)
(* refilled from the bag before the removed tiles are returned to it, and  *)
(* the current player toggles.                                             *)
C20_SwapSucceedsExactlyWhenAllowed ==
    [][last'.op = "swap" =>
          \A indices \in IndexLists :
              SwapStep(game, indices) = [game |-> game', last |-> last'] =>
                  /\ last'.ret = SwapAllowed(game, indices)
                  /\ last'.ret => SwapEffect(game, indices, game')]_vars

-----------------------------------------------------------------------------
(* C21: the current player changes only at a successful PlayTiles that    *)
(* does not end the game and at a successful SwapTiles, and there it flips *)
(* to the other player; it stays after a failed play, a failed swap, the   *)
(* play that ends the game, and a hint.                                    *)
C21_PlayerTogglesOnlyOnSuccess ==
    [][LET flips == \/ last'.op = "play" /\ last'.ret >= 0 /\ ~game'.gameOver
                    \/ last'.op = "swap" /\ last'.ret = TRUE
       IN  game'.currentPlayer = IF flips THEN 1 - game.currentPlayer
                                 ELSE game.currentPlayer]_vars

(* The play that ended the game has just been made, and the player who    *)
(* made it is still the current player.                                    *)
C21_Witness ==
    /\ last.op = "play" /\ last.ret >= 0
    /\ game.gameOver
    /\ game.moveHistory[Len(game.moveHistory)].player = game.currentPlayer

-----------------------------------------------------------------------------
(* The winner the scores call for. *)
WinnerOf(scores) ==
    IF scores[0] > scores[1] THEN 0
    ELSE IF scores[1] > scores[0] THEN 1
    ELSE -1

(* C22: in every game state whose game-over flag is set, the live game    *)
(* and the clone each playout ends with, the winner is 0 when player 0 has *)
(* the higher score, 1 when player 1 has, and -1 when the scores are       *)
(* equal.                                                                  *)
C22_WinnerFollowsScores ==
    /\ game.gameOver => game.winner = WinnerOf(game.scores)
    /\ last.op = "winprob" =>
          \A i \in DOMAIN last.runs :
              last.runs[i].gameOver => last.runs[i].winner = WinnerOf(last.runs[i].scores)

-----------------------------------------------------------------------------
(* C23: on every board reached from NewGame by PlayTiles calls, accepted  *)
(* or rejected, every occupied position other than (0,0) has an occupied   *)
(* orthogonal neighbour, and (0,0) is occupied whenever the board holds a  *)
(* tile.                                                                   *)
C23_BoardIsAnchored ==
    /\ \A p \in BoardPositions(game.board) : p # Origin => HasNeighbor(game.board, p)
    /\ ~BoardIsEmpty(game.board) => BoardHas(game.board, Origin)

(* A play was accepted on a board that now holds a tile which does not    *)
(* touch (0,0).                                                            *)
C23_Witness ==
    /\ last.op = "play" /\ last.ret >= 0
    /\ \E p \in BoardPositions(game.board) :
          /\ p # Origin
          /\ \A i \in 1..4 : Neighbors(p)[i] # Origin

-----------------------------------------------------------------------------
(* A line as the rules describe it: at most one tile, or at most six      *)
(* tiles, no tile twice, and all of one colour or all of one shape.        *)
LineRule(tiles) ==
    \/ Len(tiles) <= 1
    \/ /\ Len(tiles) <= 6
       /\ Cardinality({TileIndex(tiles[i]) : i \in 1..Len(tiles)}) = Len(tiles)
       /\ \/ Cardinality({tiles[i].color : i \in 1..Len(tiles)}) = 1
          \/ Cardinality({tiles[i].shape : i \in 1..Len(tiles)}) = 1

(* C24: IsValidLine and IsValidLineFast give the same verdict on the same *)
(* tile sequence, and the verdict is true exactly when the sequence has at *)
(* most one tile, or at most 6 tiles with no repeated tile index and all   *)
(* of one colour or all of one shape.                                      *)
C24_LineChecksAgree ==
    last.op = "line" =>
        /\ last.slow = last.fast
        /\ last.slow = LineRule(last.tiles)

(* Both checks have accepted a line of three tiles. *)
C24_Witness ==
    /\ last.op = "line"
    /\ Len(last.tiles) = 3
    /\ last.slow /\ last.fast

-----------------------------------------------------------------------------
(* C25: for every board and every occupied position the zero-allocation   *)
(* extractions return the same tiles in the same order as the allocating   *)
(* ones, also for runs longer than 6 tiles.                                *)
C25_FastExtractionAgrees ==
    last.op = "extract" =>
        /\ SubSeq(last.hBuf.tiles, 1, last.hBuf.count) = last.hLine
        /\ SubSeq(last.vBuf.tiles, 1, last.vBuf.count) = last.vLine

-----------------------------------------------------------------------------
(* How often a sequence holds a tile. *)
CountIn(seq, t) == Cardinality({i \in 1..Len(seq) : seq[i] = t})

(* How many copies of a tile the bag, the hands and the board hold. *)
CopiesInGame(g, t) ==
    CountIn(g.bag.tiles, t) + CountIn(g.hands[0], t) + CountIn(g.hands[1], t)
        + Cardinality({p \in BoardPositions(g.board) : g.board[p] = t})

(* C26: at NewGame and after every sequence of PlayTiles and SwapTiles    *)
(* calls, accepted or rejected, with any arguments, the bag, the two hands *)
(* and the board together hold every tile kind in exactly the number of    *)
(* copies the game was dealt with.                                         *)
C26_TilesConserved == \A t \in Tiles : CopiesInGame(game, t) = NumCopies

-----------------------------------------------------------------------------
(* C27: on every board reached from NewGame by PlayTiles calls, every     *)
(* maximal horizontal run and every maximal vertical run of occupied cells *)
(* is a valid line: at most 6 tiles, no tile twice, all of one colour or   *)
(* all of one shape.                                                       *)
C27_EveryRunIsValidLine ==
    \A p \in BoardPositions(game.board) : \A d \in {"h", "v"} :
        LineRule(RunTiles(game.board, RunCells(game.board, p, d), d))

(* A play of two tiles was accepted and the board holds a row and a       *)
(* column of two or more tiles.                                            *)
C27_Witness ==
    /\ last.op = "play" /\ last.ret >= 0 /\ last.n = 2
    /\ \E p \in BoardPositions(game.board) : Cardinality(RunCells(game.board, p, "h")) >= 2
    /\ \E p \in BoardPositions(game.board) : Cardinality(RunCells(game.board, p, "v")) >= 2

-----------------------------------------------------------------------------
(* C28: when ValidateSingleTile, ValidateMove, GenerateAllMoves or        *)
(* GenerateFastMove returns, on every exit path, the board holds exactly   *)
(* the tiles it held at the call, and the hands, bag, scores and current   *)
(* player are unchanged.                                                   *)
C28_ProbesLeaveGameAlone ==
    [][last'.op \in {"validate1", "validate", "generate", "fast"} => game' = game]_vars

(* GenerateAllMoves has returned moves for a hand of two tiles on a board *)
(* that holds tiles.                                                       *)
C28_Witness ==
    /\ last.op = "generate" /\ last.ret >= 2 /\ last.n = 2
    /\ ~BoardIsEmpty(game.board)

-----------------------------------------------------------------------------
(* The cells the successful plays recorded in the history have filled. *)
PlayedCells(g) ==
    UNION {{[pos |-> g.moveHistory[i].placements[k].pos,
             tile |-> g.moveHistory[i].placements[k].tile] :
               k \in 1..Len(g.moveHistory[i].placements)} : i \in 1..Len(g.moveHistory)}

BoardCells(b) == {[pos |-> q, tile |-> b[q]] : q \in BoardPositions(b)}

(* C29: under every interleaving of a hint request with a play or         *)
(* get-state request on the same session, no reply shows a tile that was   *)
(* never played, and after all requests have finished the board holds      *)
(* exactly the tiles the successful plays placed.                          *)
C29_HintLeavesLiveBoardAlone ==
    /\ \A r \in Requests :
          (srv.reqs[r].kind \in {"play", "state"} /\ srv.reqs[r].reply # << >>)
              => srv.reqs[r].reply[1].board \subseteq PlayedCells(game)
    /\ (\A r \in Requests : Done(r)) => BoardCells(game.board) = PlayedCells(game)

-----------------------------------------------------------------------------
(* The useGame hook of the web client.  The hook's React state is kept in  *)
(* last, the backend it talks to in srv.  An async handler runs in two     *)
(* steps, up to its await and from the response to its end; a handler      *)
(* reads the values of the render it was created in, so a call in flight   *)
(* carries the isAnimating and vsAi it captured.                           *)
MaxVersion == 3
MaxPending == 1

NoTimers == {}

(* What the backend can answer to a play, a swap or an AI step. *)
ApiReplies(s) ==
    IF s.game_over \/ s.version >= MaxVersion
    THEN {[success |-> FALSE, state |-> s, moved |-> FALSE]}
    ELSE {[success |-> FALSE, state |-> s, moved |-> FALSE]} \cup
         {[success |-> TRUE,
           state |-> [version |-> s.version + 1, game_over |-> over],
           moved |-> moved] : over \in BOOLEAN, moved \in BOOLEAN}

HookInit ==
    /\ game = NewGame(1)
    /\ srv = [version |-> 0, game_over |-> FALSE]
    /\ \E mode \in {"local", "vsAi", "aiVsAi"} :
          last = [state |-> [version |-> 0, game_over |-> FALSE],
                  newest |-> 0,
                  pendingPlacements |-> 0,
                  isLoading |-> FALSE,
                  isAnimating |-> FALSE,
                  vsAi |-> (mode = "vsAi"),
                  isAiVsAi |-> (mode = "aiVsAi"),
                  calls |-> {},
                  timers |-> NoTimers]

setState(h, newState) ==
    [h EXCEPT !.state = newState,
              !.newest = IF newState.version > @ THEN newState.version ELSE @]

(* animateTiles starts an animation when the new state names the tiles of *)
(* the last move; the timer keeps the state its completion will apply.    *)
animateTiles(h, reply) ==
    IF reply.moved
    THEN [h EXCEPT !.isAnimating = TRUE, !.timers = @ \cup {reply.state}]
    ELSE h

(* The finally block of confirmPlay and stepAi. *)
FinallyUnlessAnimating(h, call) ==
    IF ~call.isAnimating THEN [h EXCEPT !.isLoading = FALSE] ELSE h

confirmPlayReturns(h, call) ==
    IF call.reply.success
    THEN IF call.vsAi /\ ~call.reply.state.game_over /\ call.reply.moved
         THEN FinallyUnlessAnimating(animateTiles(h, call.reply), call)
         ELSE FinallyUnlessAnimating(setState(h, call.reply.state), call)
    ELSE FinallyUnlessAnimating(h, call)

stepAiReturns(h, call) ==
    IF call.reply.success
    THEN IF call.reply.moved
         THEN FinallyUnlessAnimating(animateTiles(h, call.reply), call)
         ELSE FinallyUnlessAnimating(setState(h, call.reply.state), call)
    ELSE FinallyUnlessAnimating(h, call)

swapSelectedReturns(h, call) ==
    [(IF call.reply.success THEN setState(h, call.reply.state) ELSE h)
        EXCEPT !.isLoading = FALSE]

(* The call leaves the hook for the backend, which answers it at once;  *)
(* the answer reaches the hook in a later step.                          *)
StartCall(kind, h) ==
    \E reply \in ApiReplies(srv) :
        /\ srv' = reply.state
        /\ last' = [h EXCEPT !.isLoading = TRUE,
                             !.calls = @ \cup {[kind |-> kind,
                                                isAnimating |-> last.isAnimating,
                                                vsAi |-> last.vsAi,
                                                reply |-> reply]}]
        /\ UNCHANGED game

(* The hand is shown while the game runs in a mode with a human player and *)
(* is disabled while isLoading.                                            *)
DoDropTile ==
    /\ ~last.state.game_over /\ ~last.isAiVsAi /\ ~last.isLoading
    /\ last.pendingPlacements < MaxPending
    /\ last' = [last EXCEPT !.pendingPlacements = @ + 1]
    /\ UNCHANGED <<game, srv>>

(* The Confirm button is shown with pending placements and disabled while *)
(* isLoading.                                                              *)
DoConfirmPlay ==
    /\ ~last.state.game_over /\ ~last.isAiVsAi /\ ~last.isLoading
    /\ last.pendingPlacements > 0
    /\ StartCall("play", [last EXCEPT !.pendingPlacements = 0])

(* The Swap button is shown without pending placements and disabled while *)
(* isLoading.                                                              *)
DoSwapSelected ==
    /\ ~last.state.game_over /\ ~last.isAiVsAi /\ ~last.isLoading
    /\ last.pendingPlacements = 0
    /\ StartCall("swap", last)

(* The Next Move button is disabled while isLoading or isAnimating. *)
DoStepAi ==
    /\ ~last.state.game_over /\ last.isAiVsAi
    /\ ~last.isLoading /\ ~last.isAnimating
    /\ StartCall("step", last)

Returned(call, h) == [h EXCEPT !.calls = @ \ {call}]

DoConfirmPlayReturns ==
    \E call \in last.calls :
        /\ call.kind = "play"
        /\ last' = Returned(call, confirmPlayReturns(last, call))
        /\ UNCHANGED <<game, srv>>

DoSwapSelectedReturns ==
    \E call \in last.calls :
        /\ call.kind = "swap"
        /\ last' = Returned(call, swapSelectedReturns(last, call))
        /\ UNCHANGED <<game, srv>>

DoStepAiReturns ==
    \E call \in last.calls :
        /\ call.kind = "step"
        /\ last' = Returned(call, stepAiReturns(last, call))
        /\ UNCHANGED <<game, srv>>

(* The animation timer fires: the tiles stop animating and the completion *)
(* callback applies the state the timer was started with.                 *)
DoTimerFires ==
    \E newState \in last.timers :
        /\ last' = [setState(last, newState) EXCEPT !.isAnimating = FALSE,
                                                     !.isLoading = FALSE,
                                                     !.timers = @ \ {newState}]
        /\ UNCHANGED <<game, srv>>

HookNext ==
    \/ DoDropTile
    \/ DoConfirmPlay
    \/ DoConfirmPlayReturns
    \/ DoSwapSelected
    \/ DoSwapSelectedReturns
    \/ DoStepAi
    \/ DoStepAiReturns
    \/ DoTimerFires

SpecHook == HookInit /\ [][HookNext]_vars

(* C30: while an AI-move animation started by confirmPlay or stepAi is    *)
(* running, isLoading is true and no other call is in flight, and the      *)
(* state shown is never older than a state applied before.                 *)
C30_LoadingCoversAnimation ==
    /\ last.timers # NoTimers => (last.isLoading /\ last.calls = {})
    /\ last.state.version >= last.newest

====
